---- MODULE Spec2Model ----
(***************************************************************************)
(* Model of the classification-and-extraction core of car_scraper:         *)
(* TemplateDetector.detect and ScraperEngine.scrape_file (engine.py) and   *)
(* the key sets the strategies' parse_car_page return (templates/*.py).    *)
(*                                                                         *)
(* A document is represented by the signals detect derives from it; the    *)
(* part of its content that only the extraction strategies read is an      *)
(* input of the extraction step.  Scores are the code's floats, held       *)
(* exactly as integers in units of 1/ScoreUnit.                            *)
(***************************************************************************)
EXTENDS Integers, Sequences, FiniteSets, TLC

\* ---------------------------------------------------------------- bounds
\* largest number of links one listing strategy discovers on a document
MaxLinks == 2

\* ------------------------------------------------------------- constants
DETAIL_SCORE_MAX == 6
LISTING_SCORE_MAX == 5
PAGINATION_SCORE == 2
DEALER_SCORE == 3

\* scores are kept in units of 1/ScoreUnit so that x/6*10 and x/5*10 are exact
ScoreUnit == DETAIL_SCORE_MAX * LISTING_SCORE_MAX

None == "None"

\* DETAIL_TEMPLATES: the keys in insertion order (the weights all start at 0)
DETAIL_TEMPLATES ==
    << "detail_hybrid_json_html", "detail_jsonld_vehicle",
       "detail_inline_html_blocks", "detail_html_spec_table" >>

LISTING_TEMPLATES == {"listing_image_grid", "listing_card", "listing_section"}

PAGINATION_TEMPLATES == {"pagination_query", "pagination_path"}

dealer_name == "dealer_info_jsonld"

\* the authoritative registration order; a class is named by its template name
ALL_TEMPLATES ==
    << "detail_hybrid_json_html", "detail_jsonld_vehicle",
       "detail_inline_html_blocks", "detail_html_spec_table",
       "listing_image_grid", "listing_card", "listing_section",
       "pagination_query", "pagination_path",
       "dealer_info_jsonld" >>

Range(s) == {s[i] : i \in 1..Len(s)}

TemplateNames == Range(ALL_TEMPLATES)

\* TEMPLATE_BY_NAME.get(name) is not None
TEMPLATE_BY_NAME(name) == name \in TemplateNames

\* a mutant of TYPE_PRIORITY: listing and pagination swapped
TYPE_PRIORITY_Swapped(categ) ==
    CASE categ = "detail" -> 3
      [] categ = "listing" -> 1
      [] categ = "pagination" -> 2
      [] OTHER -> 0

\* TYPE_PRIORITY.get(categ, 0)
TYPE_PRIORITY(categ) ==
    CASE categ = "detail" -> 3
      [] categ = "listing" -> 2
      [] categ = "pagination" -> 1
      [] categ = "dealer" -> 0
      [] OTHER -> 0

Min(a, b) == IF a <= b THEN a ELSE b

SetMax(S) == CHOOSE x \in S : \A y \in S : y <= x

\* a mutant of normalize_detail_score: capped at and divided by 5
normalize_detail_score_FiveMax(score) ==
    (Min(score, LISTING_SCORE_MAX) * 10 * ScoreUnit) \div LISTING_SCORE_MAX

\* min(score, 6) / 6 * 10, in units of 1/ScoreUnit
normalize_detail_score(score) ==
    (Min(score, DETAIL_SCORE_MAX) * 10 * ScoreUnit) \div DETAIL_SCORE_MAX

\* a mutant of normalize_listing_score: the count is not capped
normalize_listing_score_Uncapped(count) ==
    (count * 10 * ScoreUnit) \div LISTING_SCORE_MAX

\* min(count, 5) / 5 * 10, in units of 1/ScoreUnit
normalize_listing_score(count) ==
    (Min(count, LISTING_SCORE_MAX) * 10 * ScoreUnit) \div LISTING_SCORE_MAX

\* orders in which a Python set of strings can be iterated
SeqPerms(S) ==
    {s \in [1..Cardinality(S) -> S] : \A e \in S : \E i \in 1..Cardinality(S) : s[i] = e}

ListingOrders == SeqPerms(LISTING_TEMPLATES)

PaginationOrders == SeqPerms(PAGINATION_TEMPLATES)

\* ------------------------------------------------------------- documents
\* the signals detect reads off a document
Docs ==
    {d \in [has_table : BOOLEAN, has_specs : BOOLEAN, has_jsonld_vehicle : BOOLEAN,
            has_price_meta : BOOLEAN, has_title_year : BOOLEAN, has_microdata : BOOLEAN,
            has_org : BOOLEAN,
            links : [LISTING_TEMPLATES -> 0..MaxLinks],
            next : [PAGINATION_TEMPLATES -> BOOLEAN]] :
        d.has_table => d.has_specs}

VARIABLES pc, doc, candidates, selected, result, calls, raised, consumed,
          table, registry, worker,
          driver, collection, call, client, pool,
          arg, ret

\* one document through detect and scrape_file
pageVars == << pc, doc, candidates, selected, result, calls, raised, consumed >>

\* one detector shared by several callers
sharedVars == << table, registry, worker >>

\* the listing store
storeVars == << driver, collection, call, client, pool >>

\* one call of a pure helper: its argument and what it returned
pureVars == << arg, ret >>

vars == << pageVars, sharedVars, storeVars, pureVars >>

\* ------------------------------------------------- TemplateDetector.detect
\* a mutant of DetailScore: the vehicle object with specs adds 2, not 3
DetailScore_HybridTwo(d, name) ==
    CASE name = "detail_hybrid_json_html" ->
            (IF d.has_jsonld_vehicle /\ d.has_specs THEN 2 ELSE 0)
          + (IF d.has_price_meta THEN 1 ELSE 0)
      [] name = "detail_jsonld_vehicle" ->
            (IF d.has_jsonld_vehicle THEN 2 ELSE 0)
          + (IF d.has_price_meta THEN 2 ELSE 0)
      [] name = "detail_inline_html_blocks" ->
            (IF d.has_title_year THEN 2 ELSE 0)
          + (IF d.has_microdata THEN 2 ELSE 0)
          + (IF d.has_specs THEN 1 ELSE 0)
      [] name = "detail_html_spec_table" ->
            (IF d.has_table THEN 1 ELSE 0)
      [] OTHER -> 0

\* the additive heuristic points of one detail template
DetailScore(d, name) ==
    CASE name = "detail_hybrid_json_html" ->
            (IF d.has_jsonld_vehicle /\ d.has_specs THEN 3 ELSE 0)
          + (IF d.has_price_meta THEN 1 ELSE 0)
      [] name = "detail_jsonld_vehicle" ->
            (IF d.has_jsonld_vehicle THEN 2 ELSE 0)
          + (IF d.has_price_meta THEN 2 ELSE 0)
      [] name = "detail_inline_html_blocks" ->
            (IF d.has_title_year THEN 2 ELSE 0)
          + (IF d.has_microdata THEN 2 ELSE 0)
          + (IF d.has_specs THEN 1 ELSE 0)
      [] name = "detail_html_spec_table" ->
            (IF d.has_table THEN 1 ELSE 0)
      [] OTHER -> 0

Cand(tpl, categ, score) == [tpl |-> tpl, categ |-> categ, score |-> score]

MapSeq(s, F(_)) == [i \in 1..Len(s) |-> F(s[i])]

\* for name, score in detail_scores.items(): skip unknown names and score <= 0
DetailCandidates(d) ==
    LET kept(name) == TEMPLATE_BY_NAME(name) /\ DetailScore(d, name) > 0
        mk(name) == Cand(name, "detail", normalize_detail_score(DetailScore(d, name)))
    IN  MapSeq(SelectSeq(DETAIL_TEMPLATES, kept), mk)

Unsupported == "NotImplementedError"

Returns(v) == [raises |-> "none", value |-> v]

Raises(e) == [raises |-> e, value |-> 0]

\* tpl.get_listing_urls(html, page_url): the number of links found; a template
\* that does not implement the capability raises the unsupported signal
get_listing_urls(d, name) ==
    IF name \in LISTING_TEMPLATES THEN Returns(d.links[name]) ELSE Raises(Unsupported)

\* tpl.get_next_page(html, page_url) is truthy; listing templates return None
get_next_page(d, name) ==
    IF name \in PAGINATION_TEMPLATES THEN Returns(d.next[name]) ELSE Returns(FALSE)

\* for name in LISTING_TEMPLATES (iterated in the order lorder): a candidate
\* when the call returns a non-empty list; a raised signal is swallowed
ListingCandidates(d, lorder) ==
    LET kept(name) == /\ TEMPLATE_BY_NAME(name)
                      /\ get_listing_urls(d, name).raises = "none"
                      /\ get_listing_urls(d, name).value > 0
        mk(name) ==
            Cand(name, "listing", normalize_listing_score(get_listing_urls(d, name).value))
    IN  MapSeq(SelectSeq(lorder, kept), mk)

\* a mutant of PaginationCandidates: the result of get_next_page is ignored
PaginationCandidates_Always(d, porder) ==
    LET kept(name) == TEMPLATE_BY_NAME(name)
        mk(name) == Cand(name, "pagination", PAGINATION_SCORE * ScoreUnit)
    IN  MapSeq(SelectSeq(porder, kept), mk)

\* for name in PAGINATION_TEMPLATES (iterated in the order porder)
PaginationCandidates(d, porder) ==
    LET kept(name) == /\ TEMPLATE_BY_NAME(name)
                      /\ get_next_page(d, name).raises = "none"
                      /\ get_next_page(d, name).value
        mk(name) == Cand(name, "pagination", PAGINATION_SCORE * ScoreUnit)
    IN  MapSeq(SelectSeq(porder, kept), mk)

\* the dealer template, once, when an Organization JSON-LD object is present
DealerCandidates(d) ==
    IF TEMPLATE_BY_NAME(dealer_name) /\ d.has_org
    THEN << Cand(dealer_name, "dealer", DEALER_SCORE * ScoreUnit) >>
    ELSE << >>

Candidates(d, lorder, porder) ==
    DetailCandidates(d) \o ListingCandidates(d, lorder)
        \o PaginationCandidates(d, porder) \o DealerCandidates(d)

\* a mutant of MaxScore: the score of the first candidate
MaxScore_First(cands) == cands[1].score

\* max(score for _, _, score in candidates)
MaxScore(cands) == SetMax({cands[i].score : i \in 1..Len(cands)})

\* isinstance(tpl, cls): no registered class derives from another
IsInstance(tpl, cls) == tpl = cls

\* a mutant of RegistryPick: the first tied candidate in list order
RegistryPick_ListOrder(pcands) == pcands[1].tpl

\* a mutant of RegistryPick: the registry is walked from its end
RegistryPick_Last(pcands) ==
    LET hits == {i \in 1..Len(ALL_TEMPLATES) :
                    \E j \in 1..Len(pcands) : pcands[j].tpl = ALL_TEMPLATES[i]}
    IN  ALL_TEMPLATES[CHOOSE k \in hits : \A m \in hits : m <= k]

\* for cls in registry.classes(): for tpl in priority_candidates: isinstance
\* -> return tpl; falling through returns priority_candidates[0]
RegistryPick(pcands) ==
    LET hit(i) == \E j \in 1..Len(pcands) : IsInstance(pcands[j].tpl, ALL_TEMPLATES[i])
        hits == {i \in 1..Len(ALL_TEMPLATES) : hit(i)}
    IN  IF hits = {} THEN pcands[1].tpl
        ELSE LET i == CHOOSE k \in hits : \A m \in hits : k <= m
                 j == CHOOSE k \in 1..Len(pcands) :
                        /\ IsInstance(pcands[k].tpl, ALL_TEMPLATES[i])
                        /\ \A m \in 1..(k - 1) : ~IsInstance(pcands[m].tpl, ALL_TEMPLATES[i])
             IN  pcands[j].tpl

\* the selection among a non-empty list of candidates
SelectBest(cands) ==
    LET max_score == MaxScore(cands)
        best == SelectSeq(cands, LAMBDA c : c.score = max_score)
    IN  IF Len(best) = 1 THEN best[1].tpl
        ELSE LET priority == SetMax({TYPE_PRIORITY(best[i].categ) : i \in 1..Len(best)})
                 priority_candidates ==
                     SelectSeq(best, LAMBDA c : TYPE_PRIORITY(c.categ) = priority)
             IN  IF Len(priority_candidates) = 1 THEN priority_candidates[1].tpl
                 ELSE RegistryPick(priority_candidates)

\* a mutant of Select: with no candidate, fall back to the first registered class
Select_Fallback(cands) ==
    IF cands = << >> THEN ALL_TEMPLATES[1] ELSE SelectBest(cands)

\* the end of detect: None without candidates, else the selection
Select(cands) ==
    IF cands = << >> THEN None ELSE SelectBest(cands)

\* ------------------------------------------------- extraction strategies
\* The part of a document's content that decides which keys a strategy emits,
\* a record c with the fields
\*   veh    the strategy's own structured vehicle object: absent, present with
\*          no name/brand/price, with one of them, or with a name showing a year
\*   rows   label/value rows: absent, unrecognised labels only, or rows for
\*          mileage, fuel, transmission, brand and year
\*   micro  the vehicle microdata item: absent, a name only, or every property
\*   title  a non-empty title
\*   dealer the Organization object as the dealer strategy reads it: with an
\*          address object, without one, or not found (page-level fallback)
DetailNames == Range(DETAIL_TEMPLATES)

\* the content a document with signals d can have, as far as tpl reads it: a
\* title showing a year is non-empty, microdata properties need a microdata
\* item, table rows need a table and inline rows need a spec element
ContentFor(d, tpl) ==
    LET titles == IF d.has_title_year THEN {TRUE} ELSE BOOLEAN
        micros == IF d.has_microdata THEN {"none", "name", "full"} ELSE {"none"}
        table_rows == IF d.has_table THEN {"none", "plain", "all"} ELSE {"none"}
        inline_rows == IF d.has_specs THEN {"none", "plain", "all"} ELSE {"none"}
        base == [veh |-> "none", rows |-> "none", micro |-> "none",
                 title |-> d.has_title_year, dealer |-> "fallback"]
    IN  CASE tpl = "detail_jsonld_vehicle" ->
                {[base EXCEPT !.veh = v, !.micro = m, !.title = t] :
                    v \in {"none", "bare", "useful", "useful_year"}, m \in micros, t \in titles}
          [] tpl = "detail_hybrid_json_html" ->
                {[base EXCEPT !.veh = v, !.rows = r] :
                    v \in {"none", "useful"}, r \in table_rows}
          [] tpl = "detail_html_spec_table" ->
                {[base EXCEPT !.rows = r] : r \in table_rows}
          [] tpl = "detail_inline_html_blocks" ->
                {[base EXCEPT !.rows = r, !.micro = m, !.title = t] :
                    r \in inline_rows, m \in micros, t \in titles}
          [] tpl = dealer_name ->
                {[base EXCEPT !.dealer = k] : k \in {"org_addr", "org", "fallback"}}
          [] OTHER -> {base}

REQUIRED_DETAIL_KEYS ==
    {"brand", "model", "year", "price_value", "price_raw", "currency",
     "mileage_value", "mileage_unit", "fuel", "transmission", "description", "raw"}

ProvenanceKeys == {"_source", "confidence"}

\* a parsed value: None, or a dict of which the model keeps the key set
ParsedNone == [isNone |-> TRUE, keys |-> {}]

Dict(keys) == [isNone |-> FALSE, keys |-> keys]

MicroKeys(c) ==
    CASE c.micro = "name" -> {"name"}
      [] c.micro = "full" -> {"name", "brand", "model", "description", "price"}
      [] OTHER -> {}

MetaKeys == {"title", "price", "currency", "description"}

RowKeys(c) ==
    IF c.rows = "all"
    THEN {"mileage", "mileage_value", "mileage_unit", "fuel", "transmission", "brand", "year"}
    ELSE {}

\* finalize_detail_output: copies the dict and assigns each canonical key
finalize_detail_output(keys) == keys \cup REQUIRED_DETAIL_KEYS

\* JSONLDVehicleTemplate.parse_car_page
JSONLDVehicleTemplate_parse_car_page(c) ==
    IF c.veh # "none"
    THEN {"brand", "model", "price", "price_raw", "currency", "name", "description",
          "_raw", "_source", "confidence"}
         \cup (IF c.veh = "useful_year" THEN {"year"} ELSE {})
    ELSE {"_source", "_raw", "confidence"}

\* DetailJSONLDVehicle.parse_car_page: the base result, updated with the
\* microdata or meta fallback when it holds no name, brand or price
DetailJSONLDVehicle_parse_car_page(d, c) ==
    LET out == JSONLDVehicleTemplate_parse_car_page(c)
        useful == c.veh \in {"useful", "useful_year"}
    IN  IF useful THEN out
        ELSE IF c.micro # "none" THEN out \cup MicroKeys(c) \cup {"_source", "confidence"}
        ELSE IF d.has_price_meta \/ c.title
             THEN out \cup MetaKeys \cup {"_source", "confidence"}
        ELSE out

\* HybridJSONHTMLTemplate.parse_car_page
HybridJSONHTMLTemplate_parse_car_page(c) ==
    {"_source", "specs"}
    \cup (IF c.veh # "none"
          THEN {"name", "brand", "model", "price", "currency", "_raw_jsonld"} ELSE {})
    \cup RowKeys(c)

\* DetailHybridJSONHTML.parse_car_page
DetailHybridJSONHTML_parse_car_page(c) ==
    finalize_detail_output(HybridJSONHTMLTemplate_parse_car_page(c))

\* HTMLSpecTableTemplate.parse_car_page: a spec map with mileage, fuel and
\* transmission surfaced as first-class fields
HTMLSpecTableTemplate_parse_car_page(c) ==
    {"_source", "specs"}
    \cup (IF c.rows = "all" THEN {"mileage", "fuel", "transmission"} ELSE {})

\* DetailHTMLSpecTable.parse_car_page
DetailHTMLSpecTable_parse_car_page(c) ==
    finalize_detail_output(HTMLSpecTableTemplate_parse_car_page(c))

\* DetailInlineHTMLBlocks.parse_car_page
DetailInlineHTMLBlocks_parse_car_page(d, c) ==
    LET out == {"_source", "specs"} \cup RowKeys(c)
    IN  IF c.rows = "none" /\ c.micro # "none" THEN out \cup MicroKeys(c)
        ELSE IF c.rows = "none" /\ (d.has_price_meta \/ c.title) THEN out \cup MetaKeys
        ELSE out

\* a mutant of DealerInfoTemplate_parse_car_page: the payload under 'raw'
DealerInfoTemplate_parse_car_page_Raw(c) ==
    CASE c.dealer = "org_addr" -> {"name", "telephone", "email", "address", "raw"}
      [] c.dealer = "org" -> {"name", "telephone", "email", "raw"}
      [] OTHER -> {"name", "telephone", "email"}

\* DealerInfoTemplate.parse_car_page
DealerInfoTemplate_parse_car_page(c) ==
    CASE c.dealer = "org_addr" -> {"name", "telephone", "email", "address", "_raw"}
      [] c.dealer = "org" -> {"name", "telephone", "email", "_raw"}
      [] OTHER -> {"name", "telephone", "email"}

\* CardListingTemplate.parse_car_page (GridListingTemplate's is the same): the
\* listing strategies do not implement the capability
CardListingTemplate_parse_car_page == Raises(Unsupported)

\* PaginationPathTemplate.parse_car_page
PaginationPathTemplate_parse_car_page == Raises(Unsupported)

\* tpl.parse_car_page(html, path), dispatched on the class of tpl
parse_car_page(tpl, d, c) ==
    CASE tpl = "detail_jsonld_vehicle" -> Returns(Dict(DetailJSONLDVehicle_parse_car_page(d, c)))
      [] tpl = "detail_hybrid_json_html" -> Returns(Dict(DetailHybridJSONHTML_parse_car_page(c)))
      [] tpl = "detail_html_spec_table" -> Returns(Dict(DetailHTMLSpecTable_parse_car_page(c)))
      [] tpl = "detail_inline_html_blocks" ->
            Returns(Dict(DetailInlineHTMLBlocks_parse_car_page(d, c)))
      [] tpl = dealer_name -> Returns(Dict(DealerInfoTemplate_parse_car_page(c)))
      [] tpl \in LISTING_TEMPLATES -> CardListingTemplate_parse_car_page
      [] OTHER -> PaginationPathTemplate_parse_car_page

\* ------------------------------------------------ ScraperEngine.scrape_file
\* a mutant of TryParse: the unsupported signal is not caught
TryParse_NoCatch(r) == r

\* try: parsed = tpl.parse_car_page(...) except NotImplementedError: parsed = None
TryParse(r) ==
    IF r.raises = Unsupported THEN Returns(ParsedNone) ELSE r

\* try: listing_urls = tpl.get_listing_urls(...) except Exception: listing_urls = None
\* (None and the empty list are both 0 links)
TryListingUrls(r) ==
    IF r.raises # "none" THEN Returns(0) ELSE r

\* a mutant of Emit: whatever was parsed is emitted as a car row
Emit_CarAlways(tpl, parsed, d) ==
    [car |-> parsed,
     dealer |-> IF tpl = dealer_name THEN parsed ELSE ParsedNone,
     listing_urls |-> IF tpl \in LISTING_TEMPLATES
                      THEN TryListingUrls(get_listing_urls(d, tpl)).value ELSE 0,
     parsed_debug |-> ParsedNone]

\* the dispatch on tpl.name: detail -> car, dealer -> dealer, listing ->
\* listing_urls, pagination -> nothing, unknown -> parsed_debug
Emit(tpl, parsed, d) ==
    [car |-> IF tpl \in DetailNames THEN parsed ELSE ParsedNone,
     dealer |-> IF tpl \notin DetailNames /\ tpl = dealer_name THEN parsed ELSE ParsedNone,
     listing_urls |-> IF tpl \notin DetailNames /\ tpl # dealer_name /\ tpl \in LISTING_TEMPLATES
                      THEN TryListingUrls(get_listing_urls(d, tpl)).value ELSE 0,
     parsed_debug |-> IF /\ tpl \notin DetailNames \cup {dealer_name}
                         /\ tpl \notin LISTING_TEMPLATES \cup PAGINATION_TEMPLATES
                         /\ ~parsed.isNone /\ parsed.keys # {}
                      THEN parsed ELSE ParsedNone]

NoResult ==
    [template |-> "", keys |-> {}, car |-> ParsedNone, dealer |-> ParsedNone,
     listing_urls |-> 0, parsed_debug |-> ParsedNone]

\* the result dict: 'sample', 'template', 'car' and 'dealer' are always set,
\* 'listing_urls' only when truthy, 'parsed_debug' only for an unknown template
ResultOf(tpl, e) ==
    [template |-> tpl,
     keys |-> {"sample", "template", "car", "dealer"}
              \cup (IF e.listing_urls > 0 THEN {"listing_urls"} ELSE {})
              \cup (IF ~e.parsed_debug.isNone THEN {"parsed_debug"} ELSE {}),
     car |-> e.car, dealer |-> e.dealer,
     listing_urls |-> e.listing_urls, parsed_debug |-> e.parsed_debug]

\* the capability calls scrape_file makes on the selected template
CallsOn(tpl) ==
    IF tpl \in LISTING_TEMPLATES THEN {"parse_car_page", "get_listing_urls"}
    ELSE {"parse_car_page"}

\* scrape_file after detect has returned tpl: the exception that escapes (or
\* "none"), the result, the capability calls made and the signals consumed
scrape_file(tpl, d, c) ==
    IF tpl = None
    THEN [raises |-> "none",
          value |-> ResultOf("no_template", Emit(None, ParsedNone, d)),
          calls |-> {}, consumed |-> {}]
    ELSE LET raw == parse_car_page(tpl, d, c)
             r == TryParse(raw)
         IN  IF r.raises # "none"
             THEN [raises |-> r.raises, value |-> NoResult,
                   calls |-> {"parse_car_page"}, consumed |-> {}]
             ELSE [raises |-> "none",
                   value |-> ResultOf(tpl, Emit(tpl, r.value, d)),
                   calls |-> CallsOn(tpl),
                   consumed |-> IF raw.raises = Unsupported THEN {"parse_car_page"} ELSE {}]

\* ------------------------------------------------- one shared detector
\* TemplateDetector.DETAIL_TEMPLATES as the class is defined: every weight 0
ZeroTable == [name \in Range(DETAIL_TEMPLATES) |-> 0]

\* detail_scores = dict(self.DETAIL_TEMPLATES) followed by the "+=" lines: a
\* new dict holding the table's weights plus the document's points
detail_scores(tbl, d) == [name \in DOMAIN tbl |-> tbl[name] + DetailScore(d, name)]

\* a mutant of TableAfterDetect: detail_scores is the class table itself
TableAfterDetect_Alias(tbl, scores) == scores

\* the class table after the scoring lines: they write to the copy only
TableAfterDetect(tbl, scores) == tbl

\* the detail candidates read from a detail_scores dict
DetailCandidatesOf(scores) ==
    LET kept(name) == TEMPLATE_BY_NAME(name) /\ scores[name] > 0
        mk(name) == Cand(name, "detail", normalize_detail_score(scores[name]))
    IN  MapSeq(SelectSeq(DETAIL_TEMPLATES, kept), mk)

\* the callers that share the detector
Workers == {"w1", "w2"}

\* the documents the callers hand in: detail signals and listing_card links
SharedDocs ==
    {d \in Docs :
        /\ ~d.has_org /\ ~d.has_microdata /\ ~d.has_title_year
        /\ \A n \in PAGINATION_TEMPLATES : ~d.next[n]
        /\ \A n \in LISTING_TEMPLATES : d.links[n] <= (IF n = "listing_card" THEN 1 ELSE 0)}

EmptyDoc == CHOOSE d \in SharedDocs :
    /\ ~d.has_table /\ ~d.has_specs /\ ~d.has_jsonld_vehicle /\ ~d.has_price_meta
    /\ \A n \in LISTING_TEMPLATES : d.links[n] = 0

IdleWorker ==
    [pc |-> "idle", doc |-> EmptyDoc, scores |-> ZeroTable,
     selected |-> "unset", result |-> NoResult]

SharedInit ==
    /\ table = ZeroTable
    /\ registry = ALL_TEMPLATES
    /\ worker = [w \in Workers |-> IdleWorker]

\* no detector is shared: nothing to hold
SharedIdle ==
    /\ table = << >>
    /\ registry = << >>
    /\ worker = << >>

\* ------------------------------------------------------- db/mongo_store.py
\* @_with_retries(retries=3, backoff=0.3) on save_listing; delays are counted
\* in tenths of a second
SAVE_RETRIES == 3

SAVE_BACKOFF == 3

\* the cap on the number of documents the collection may hold
MaxDocs == 2

Absent == "absent"

\* what callers pass as data: something that is not a dict, or a dict whose
\* 'url' and 'vin' are missing (or falsy) or set, with the other fields in body
NotADict == [isDict |-> FALSE, url |-> Absent, vin |-> Absent, body |-> "a"]

StoreInputs ==
    {NotADict} \cup
    [isDict : {TRUE}, url : {Absent, "u1", "u2"}, vin : {Absent, "v1"}, body : {"a", "b"}]

\* the exception classes named in an except clause: PyMongoError and
\* ServerSelectionTimeoutError are the driver's classes, or plain Exception
\* when the import of pymongo failed (lines 12-19)
IsPyMongoError(installed, exc) ==
    IF installed THEN exc \in {"PyMongoError", "ServerSelectionTimeoutError"} ELSE TRUE

\* get_collection(): without the driver the name WriteConcern is unbound
\* (NameError, line 63); with it, building the client either works or raises
\* a driver error (fault = TRUE)
get_collection(installed, fault) ==
    IF ~installed THEN Raises("NameError")
    ELSE IF fault THEN Raises("PyMongoError")
    ELSE Returns(0)

NoReply == [kind |-> "none", matched |-> 0, upserted |-> FALSE]

\* the filter of save_listing: by url when truthy, else by vin when truthy
FilterOf(data) ==
    IF data.url # Absent THEN [field |-> "url", value |-> data.url]
    ELSE IF data.vin # Absent THEN [field |-> "vin", value |-> data.vin]
    ELSE [field |-> "none", value |-> Absent]

Matching(coll, f) ==
    {d \in coll : (IF f.field = "url" THEN d.url ELSE d.vin) = f.value}

\* {'$set': data}: the keys of data overwrite the document's, the others stay
SetFields(d, data) ==
    [d EXCEPT !.url = IF data.url # Absent THEN data.url ELSE @,
              !.vin = IF data.vin # Absent THEN data.vin ELSE @,
              !.body = data.body]

NewDoc(coll, data) ==
    [id |-> Cardinality(coll) + 1, url |-> data.url, vin |-> data.vin, body |-> data.body]

\* coll.insert_one(data)
insert_one(coll, data) ==
    [coll |-> coll \cup {NewDoc(coll, data)},
     reply |-> [kind |-> "inserted", matched |-> 0, upserted |-> FALSE]]

\* a mutant of update_one: the filter is ignored and a document is inserted
update_one_Insert(coll, f, data) ==
    [coll |-> coll \cup {NewDoc(coll, data)},
     reply |-> [kind |-> "updated", matched |-> 0, upserted |-> TRUE]]

\* coll.update_one(filterq, {'$set': data}, upsert=True): the first matching
\* document (lowest id) is updated; with no match a document is inserted
update_one(coll, f, data) ==
    LET hits == Matching(coll, f)
    IN  IF hits = {}
        THEN [coll |-> coll \cup {NewDoc(coll, data)},
              reply |-> [kind |-> "updated", matched |-> 0, upserted |-> TRUE]]
        ELSE LET d == CHOOSE x \in hits : \A y \in hits : x.id <= y.id
             IN  [coll |-> (coll \ {d}) \cup {SetFields(d, data)},
                  reply |-> [kind |-> "updated", matched |-> 1, upserted |-> FALSE]]

\* the write of save_listing (lines 101-111)
Write(coll, data) ==
    IF FilterOf(data).field # "none"
    THEN update_one(coll, FilterOf(data), data)
    ELSE insert_one(coll, data)

\* the outcomes of one write on the server: it is applied ("ok"), or the
\* driver raises a connectivity error, or the encoder rejects a value with
\* bson.errors.InvalidDocument (an Exception, not a PyMongoError)
WriteFaults == {"ok", "ServerSelectionTimeoutError", "InvalidDocument"}

\* a mutant of WriteCaught: the write's errors are left to the retry wrapper
WriteCaught_Never(installed, exc) == FALSE

\* except PyMongoError as e: return {'error': str(e)} (lines 112-113)
WriteCaught(installed, exc) == IsPyMongoError(installed, exc)

\* one invocation of the body of save_listing: the exception it raises (or
\* "none"), the reply it returns, the collection afterwards and whether the
\* write was sent
save_listing_body(installed, coll, data, cfault, wfault) ==
    LET c == get_collection(installed, cfault)
        fail(e) == [raises |-> e, reply |-> NoReply, coll |-> coll, wrote |-> FALSE]
    IN  IF c.raises # "none" THEN fail(c.raises)
        ELSE IF ~data.isDict THEN fail("ValueError")
        ELSE IF wfault = "ok"
             THEN LET w == Write(coll, data)
                  IN  [raises |-> "none", reply |-> w.reply, coll |-> w.coll, wrote |-> TRUE]
        ELSE IF WriteCaught(installed, wfault)
             THEN [raises |-> "none",
                   reply |-> [kind |-> "error", matched |-> 0, upserted |-> FALSE],
                   coll |-> coll, wrote |-> TRUE]
        ELSE [raises |-> wfault, reply |-> NoReply, coll |-> coll, wrote |-> TRUE]

\* a mutant of Sleep: the same delay after every failed attempt
Sleep_Fixed(attempt) == SAVE_BACKOFF

\* time.sleep(backoff * attempt)
Sleep(attempt) == SAVE_BACKOFF * attempt

\* call.pc: "idle" between calls, "running" inside the for loop of the
\* wrapper, "returned" / "raised" when the wrapper has returned / raised.
\* attempt is the loop variable, tries the invocations of the body so far,
\* writes the writes sent, delays the sleeps taken, exc the last exception.
IdleCall ==
    [pc |-> "idle", data |-> NotADict, attempt |-> 1, tries |-> 0, writes |-> 0,
     delays |-> << >>, reply |-> NoReply, exc |-> "none"]

\* _client = None (line 30)
NoClient == 0

\* get_client(): the cached client, or a first one when the driver can build
\* it (lines 53-58)
get_client(cached, fault) ==
    IF cached # NoClient THEN cached ELSE IF fault THEN NoClient ELSE 1

StoreInit ==
    /\ driver \in BOOLEAN
    /\ collection = {}
    /\ call = IdleCall
    /\ client = NoClient
    /\ pool = << >>

\* the store module is not imported
StoreIdle ==
    /\ driver = FALSE
    /\ collection = {}
    /\ call = << >>
    /\ client = NoClient
    /\ pool = << >>

PureIdle ==
    /\ arg = "none"
    /\ ret = "none"

\* ------------------------------------------------------ mileage normalizers
\* A mileage text: a number written as an optional thousands group and a last
\* group ("2,150" is thousands 2, last 150, sep "comma"; "150" is thousands 0),
\* an optional "k" right after it, an optional space (gap) and a unit word.
MileageTexts ==
    {t \in [thousands : {0, 2, 3}, last : {0, 150},
            sep : {"none", "comma", "dot", "space"}, k : BOOLEAN,
            unit : {"", "mi", "miles", "km", "kilometres"}, gap : BOOLEAN] :
        /\ t.thousands = 0 => t.sep = "none"
        /\ t.unit = "" => ~t.gap}

\* the number a reader takes the text to state
NumberOf(t) == t.thousands * 1000 + t.last

\* re.search(r'\bkm\b|kilomet', s): "km" needs a word boundary before it, so
\* it must not touch the digits or the "k" in front
IsKm(t) == t.unit = "kilometres" \/ (t.unit = "km" /\ t.gap)

\* templates/utils.py: 'k' in s.lower(); schema_normalizer.py: the optional
\* (k) right after the digits once [,\s]+ is removed.  Either way the "k" of
\* the shorthand and the first letter of "km" / "kilometres" both count
HasK(t) == t.k \/ t.unit \in {"km", "kilometres"}

\* int(round(value * 0.621371)), computed without leaving 32 bits
KmToMiles(v) == ((v * 621) + ((v * 371) + 500000) \div 1000) \div 1000

\* float(s_val.replace(',', '')) scaled and rounded: whole is the value of a
\* digit run without a decimal point; a run "T.LLL" is T + LLL/1000, which
\* rounds to T and is T*1000 + LLL when multiplied by 1000
Scaled(t, whole) ==
    IF t.thousands > 0 /\ t.sep = "dot"
    THEN (IF HasK(t) THEN NumberOf(t) ELSE t.thousands)
    ELSE (IF HasK(t) THEN whole * 1000 ELSE whole)

\* templates/utils.parse_mileage(txt)[0]: the first run of [0-9,.] is the
\* number (a space ends it)
parse_mileage(t) ==
    LET whole == IF t.thousands > 0 /\ t.sep = "space" THEN t.thousands ELSE NumberOf(t)
        value == Scaled(t, whole)
    IN  IF IsKm(t) THEN KmToMiles(value) ELSE value

\* SchemaNormalizer.normalize_mileage(value): commas and spaces are removed
\* before the number is searched
normalize_mileage(t) ==
    LET value == Scaled(t, NumberOf(t))
    IN  IF IsKm(t) THEN KmToMiles(value) ELSE value

\* the helper has not been called yet
NotCalled == -1

\* --------------------------------------------------------- year normalizers
\* the longest text, in tokens
MaxTokens == 2

\* A text is a sequence of tokens separated by spaces: a word without digits,
\* a number of two digits ("d2"), a number of four digits ("d4"), or digits
\* glued into a longer run of letters and digits that contains the four
\* digits v ("glued", as in "x20185")
YearTokens ==
    {[kind |-> "word", v |-> 0], [kind |-> "glued", v |-> 2018]}
    \cup [kind : {"d2"}, v : {18, 28, 30, 31, 99}]
    \cup [kind : {"d4"}, v : {1899, 2018, 2028, 2031}]

YearTexts == UNION {[1..n -> YearTokens] : n \in 0..MaxTokens}

\* datetime.now().year when schema_normalizer is imported
CurrentYears == {2026, 2030}

\* None, for a year
NoYear == 0

\* the index of the first token of s that satisfies Hit, or 0
FirstIndex(s, Hit(_)) ==
    IF \E i \in 1..Len(s) : Hit(s[i])
    THEN CHOOSE i \in 1..Len(s) : Hit(s[i]) /\ \A j \in 1..(i - 1) : ~Hit(s[j])
    ELSE 0

\* 19\d{2}|20\d{2}
YearShaped(v) == 1900 <= v /\ v <= 2099

\* re.search(r"\b(19\d{2}|20\d{2})\b", s): the token is the four digits
BoundedYearHit(tok) == tok.kind = "d4" /\ YearShaped(tok.v)

\* _YEAR_RE.search(s), without \b: the four digits may sit inside a longer run
AnyYearHit(tok) == tok.kind \in {"d4", "glued"} /\ YearShaped(tok.v)

\* re.search(r"\b(\d{2})\b", s)
TwoDigitHit(tok) == tok.kind = "d2"

\* a mutant of TwoDigitYear: every two-digit year is put in the 1900s
TwoDigitYear_1900s(yy) == 1900 + yy

\* 2000 + yy if yy <= 30 else 1900 + yy
TwoDigitYear(yy) == IF yy <= 30 THEN 2000 + yy ELSE 1900 + yy

\* templates/utils.parse_year(txt)
parse_year(s) ==
    LET i == FirstIndex(s, BoundedYearHit)
        j == FirstIndex(s, TwoDigitHit)
    IN  IF i # 0 /\ 1900 <= s[i].v /\ s[i].v <= 2030 THEN s[i].v
        ELSE IF j # 0 THEN TwoDigitYear(s[j].v)
        ELSE NoYear

\* SchemaNormalizer.normalize_year(value) for a string value, with the
\* current year now
normalize_year(s, now) ==
    LET i == FirstIndex(s, AnyYearHit)
        j == FirstIndex(s, TwoDigitHit)
        year == IF i # 0 THEN s[i].v
                ELSE IF j # 0 THEN TwoDigitYear(s[j].v)
                ELSE NoYear
    IN  IF 1900 <= year /\ year <= now + 1 THEN year ELSE NoYear

\* the 'year' of finalize_detail_output: a truthy year of the strategy is
\* kept as it is, else the name or title is parsed
finalize_year(supplied, s) ==
    IF supplied # NoYear THEN supplied ELSE parse_year(s)

\* the years a strategy hands to finalize_detail_output: none, or an integer
SuppliedYears == {NoYear, 1850, 2018}

\* ------------------------------------- confidence of detail_jsonld_vehicle
\* What DetailJSONLDVehicle.parse_car_page reads of a page:
\*   veh    the first JSON-LD vehicle object: whether its brand, model and
\*          name come out non-empty, and whether its price parses to nothing,
\*          to 0 or to a positive amount
\*   micro  the first vehicle microdata item with a price or a name, and
\*          which of its properties are present
\*   meta   whether the page has a meta title and a meta price
NoVehicle == [present |-> FALSE, brand |-> FALSE, model |-> FALSE, name |-> FALSE,
              price |-> "none"]

NoMicro == [present |-> FALSE, name |-> FALSE, brand |-> FALSE, model |-> FALSE,
            price |-> FALSE]

JsonLdPages ==
    [veh : {NoVehicle} \cup [present : {TRUE}, brand : BOOLEAN, model : BOOLEAN,
                             name : BOOLEAN, price : {"none", "zero", "positive"}],
     micro : {NoMicro} \cup
             {m \in [present : {TRUE}, name : BOOLEAN, brand : BOOLEAN,
                     model : BOOLEAN, price : BOOLEAN] : m.name \/ m.price},
     meta : [title : BOOLEAN, price : BOOLEAN]]

\* core: brand and model when non-empty, price when it parsed to a number
CoreCount(veh) ==
    (IF veh.brand THEN 1 ELSE 0) + (IF veh.model THEN 1 ELSE 0)
        + (IF veh.price # "none" THEN 1 ELSE 0)

\* a mutant of RoundThirds: the hundredths are cut off, not rounded
RoundThirds_Floor(core) == (core * 100) \div 3

\* round(core / 3.0, 2), in hundredths
RoundThirds(core) == (core * 200 + 3) \div 6

\* JSONLDVehicleTemplate.parse_car_page: the provenance and the core fields
\* of the record (TRUE when populated)
JSONLDVehicle_record(veh) ==
    IF veh.present
    THEN [source |-> "json-ld", confidence |-> RoundThirds(CoreCount(veh)),
          brand |-> veh.brand, model |-> veh.model, price |-> veh.price # "none"]
    ELSE [source |-> "json-ld", confidence |-> 0,
          brand |-> FALSE, model |-> FALSE, price |-> FALSE]

\* DetailJSONLDVehicle.parse_car_page: when the JSON-LD record has no truthy
\* name, brand or price, the microdata item or the meta values are merged
\* over it with a fixed confidence (0.5, 0.3)
DetailJSONLDVehicle_record(p) ==
    LET out == JSONLDVehicle_record(p.veh)
        useful == p.veh.name \/ p.veh.brand \/ p.veh.price = "positive"
    IN  IF useful THEN out
        ELSE IF p.micro.present
        THEN [source |-> "microdata-fallback", confidence |-> 50,
              brand |-> p.micro.brand \/ out.brand,
              model |-> p.micro.model \/ out.model,
              price |-> p.micro.price \/ out.price]
        ELSE IF p.meta.price \/ p.meta.title
        THEN [source |-> "meta-fallback", confidence |-> 30,
              brand |-> out.brand, model |-> out.model, price |-> p.meta.price]
        ELSE out

NoRecord ==
    [source |-> "none", confidence |-> 0, brand |-> FALSE, model |-> FALSE,
     price |-> FALSE]

\* ------------------------------------------------------- get_listing_urls
\* the most hrefs a page holds
MaxHrefs == 3

\* A URL is a host ("" when the reference is relative) and a path: an href as
\* written in the page, or the page URL itself
Hrefs == [host : {"", "example.com", "other.org"}, path : {"/cars/a", "/cars/b"}]

PageUrls == {[host |-> "example.com", path |-> "/"], [host |-> "", path |-> "/"]}

\* the hrefs of a page in the order get_listing_urls comes across them
FoundHrefs == UNION {[1..n -> Hrefs] : n \in 0..MaxHrefs}

\* urllib.parse.urljoin(page_url, href): an href with a host stands; one
\* without takes the host of the page
urljoin(page_url, href) ==
    IF href.host # "" THEN href ELSE [host |-> page_url.host, path |-> href.path]

\* a mutant of Dedupe: the list is returned as collected
Dedupe_Keep(urls) == urls

\* list(dict.fromkeys(urls)): each URL once, at the place of its first
\* occurrence
Dedupe(urls) ==
    LET firsts == {i \in 1..Len(urls) : \A j \in 1..(i - 1) : urls[j] # urls[i]}
        nth(k) == CHOOSE i \in firsts : Cardinality({j \in firsts : j < i}) = k - 1
    IN  [k \in 1..Cardinality(firsts) |-> urls[nth(k)]]

\* CardListingTemplate, GridListingTemplate and ListingAjaxInfiniteTemplate:
\* urls.append(urljoin(page_url, href)) for every href found, then the dedupe
listing_urls(found, page_url) ==
    Dedupe([i \in 1..Len(found) |-> urljoin(page_url, found[i])])

\* ALLOWED_DOMAINS of json_api_listing: an absolute URL of another host is no
\* listing URL
IsListingUrl(href) == href.host \in {"", "example.com"}

\* JSONAPIListingTemplate.get_listing_urls: only the strings _is_listing_url
\* accepts are resolved and collected
json_listing_urls(found, page_url) ==
    listing_urls(SelectSeq(found, IsListingUrl), page_url)

ListingVariants == {"card", "grid", "json", "ajax"}

\* ------------------------------------------------------------ state machine
\* pc: "ready" before any call on the document, "detected" when detect has
\* returned, "scraped" when scrape_file has returned (or raised).
\* candidates holds the candidates of the last detect call, selected what it
\* returned.
Init ==
    /\ pc = "ready"
    /\ doc \in Docs
    /\ candidates = {}
    /\ selected = "unset"
    /\ result = NoResult
    /\ calls = {}
    /\ raised = "none"
    /\ consumed = {}
    /\ SharedIdle
    /\ StoreIdle
    /\ PureIdle

\* detector.detect(html, url), called by a test or by scrape_file (line 250);
\* it may be called again on the same document, and the two sets of template
\* names are then iterated in whatever order the interpreter gives them
Detect ==
    /\ pc \in {"ready", "detected"}
    /\ \E lorder \in ListingOrders, porder \in PaginationOrders :
          LET cands == Candidates(doc, lorder, porder)
          IN  /\ candidates' = Range(cands)
              /\ selected' = Select(cands)
    /\ pc' = "detected"
    /\ UNCHANGED << doc, result, calls, raised, consumed >>
    /\ UNCHANGED << sharedVars, storeVars, pureVars >>

\* engine.scrape_file(path) from the return of its detect call to its own
\* return: extraction with the selected template and assembly of the result
ScrapeFile ==
    /\ pc = "detected"
    /\ \E c \in ContentFor(doc, selected) :
          LET out == scrape_file(selected, doc, c)
          IN  /\ result' = out.value
              /\ calls' = out.calls
              /\ raised' = out.raises
              /\ consumed' = out.consumed
    /\ pc' = "scraped"
    /\ UNCHANGED << doc, candidates, selected >>
    /\ UNCHANGED << sharedVars, storeVars, pureVars >>

Next == Detect \/ ScrapeFile

Spec == Init /\ [][Next]_vars

\* ------------------------------------ detect on documents with many links
\* bound: the largest number of links one listing strategy discovers on a
\* document of WideDocs; above LISTING_SCORE_MAX so that the cap is reached
MaxCount == 6

\* the link counts of WideDocs: none, the counts around which a listing score
\* passes a detail score of 3 or 4 points, the cap, and a count above the cap
LinkCounts == {0, 3, 4, LISTING_SCORE_MAX, MaxCount}

\* the signals of documents on which a listing strategy can find many links
WideDocs ==
    {d \in [has_table : BOOLEAN, has_specs : BOOLEAN, has_jsonld_vehicle : BOOLEAN,
            has_price_meta : BOOLEAN, has_title_year : BOOLEAN, has_microdata : BOOLEAN,
            has_org : BOOLEAN,
            links : [LISTING_TEMPLATES -> LinkCounts],
            next : [PAGINATION_TEMPLATES -> BOOLEAN]] :
        d.has_table => d.has_specs}

WideInit ==
    /\ pc = "ready"
    /\ doc \in WideDocs
    /\ candidates = {}
    /\ selected = "unset"
    /\ result = << >>
    /\ calls = {}
    /\ raised = "none"
    /\ consumed = {}
    /\ SharedIdle
    /\ StoreIdle
    /\ PureIdle

\* detector.detect(html, url) called once on a fresh detector, as the detector
\* tests do
WideDetect == pc = "ready" /\ Detect

WideNext == WideDetect

WideSpec == WideInit /\ [][WideNext]_vars

\* ---------------------------------- callers interleaved on one detector
\* worker[w].pc: "idle" between calls, "scoring" when detect has filled its
\* detail_scores, "detected" when detect has returned, "scraped" when
\* scrape_file has returned.  table is TemplateDetector.DETAIL_TEMPLATES and
\* registry is TemplateRegistry._order, both shared by every caller.

\* no single document is being scraped
PageIdle ==
    /\ pc = "ready"
    /\ doc = << >>
    /\ candidates = {}
    /\ selected = "unset"
    /\ result = << >>
    /\ calls = {}
    /\ raised = "none"
    /\ consumed = {}

\* detect up to the end of the detail scoring lines
DetectScore(w) ==
    /\ worker[w].pc = "idle"
    /\ \E d \in SharedDocs :
          LET scores == detail_scores(table, d)
          IN  /\ worker' = [worker EXCEPT ![w] =
                    [IdleWorker EXCEPT !.pc = "scoring", !.doc = d, !.scores = scores]]
              /\ table' = TableAfterDetect(table, scores)
    /\ UNCHANGED << registry, pageVars, storeVars, pureVars >>

\* the rest of detect: the other candidates and the selection, which walks
\* registry.classes() without writing to it
DetectSelect(w) ==
    /\ worker[w].pc = "scoring"
    /\ \E lorder \in ListingOrders, porder \in PaginationOrders :
          LET d == worker[w].doc
              cands == DetailCandidatesOf(worker[w].scores) \o ListingCandidates(d, lorder)
                          \o PaginationCandidates(d, porder) \o DealerCandidates(d)
          IN  worker' = [worker EXCEPT ![w].pc = "detected", ![w].selected = Select(cands)]
    /\ UNCHANGED << table, registry, pageVars, storeVars, pureVars >>

\* scrape_file after its detect call
SharedScrape(w) ==
    /\ worker[w].pc = "detected"
    /\ \E c \in ContentFor(worker[w].doc, worker[w].selected) :
          LET out == scrape_file(worker[w].selected, worker[w].doc, c)
          IN  worker' = [worker EXCEPT ![w].pc = "scraped", ![w].result = out.value]
    /\ UNCHANGED << table, registry, pageVars, storeVars, pureVars >>

\* the caller takes the result and may call again
SharedReturn(w) ==
    /\ worker[w].pc = "scraped"
    /\ worker' = [worker EXCEPT ![w] = IdleWorker]
    /\ UNCHANGED << table, registry, pageVars, storeVars, pureVars >>

SharedInitAll == PageIdle /\ SharedInit /\ StoreIdle /\ PureIdle

SharedNext ==
    \E w \in Workers :
        DetectScore(w) \/ DetectSelect(w) \/ SharedScrape(w) \/ SharedReturn(w)

SharedSpec == SharedInitAll /\ [][SharedNext]_vars

\* ------------------------------------------------ the store and its callers
\* a caller calls save_listing(data); once the collection holds MaxDocs
\* documents only records that match a stored one are saved
SaveCall ==
    /\ call.pc = "idle"
    /\ \E data \in StoreInputs :
          /\ \/ Cardinality(collection) < MaxDocs
             \/ /\ data.isDict
                /\ FilterOf(data).field # "none"
                /\ Matching(collection, FilterOf(data)) # {}
          /\ call' = [IdleCall EXCEPT !.pc = "running", !.data = data]
    /\ UNCHANGED << driver, collection, client, pool, pageVars, sharedVars, pureVars >>

\* one pass of the wrapper's for loop: the body is invoked; a value is
\* returned, an exception the except clause names is slept on, any other
\* exception leaves the wrapper
SaveAttempt ==
    /\ call.pc = "running"
    /\ call.attempt <= SAVE_RETRIES
    /\ \E cfault \in BOOLEAN, wfault \in WriteFaults :
          LET out == save_listing_body(driver, collection, call.data, cfault, wfault)
              tried == [call EXCEPT !.tries = @ + 1,
                                    !.writes = @ + (IF out.wrote THEN 1 ELSE 0)]
          IN  /\ collection' = out.coll
              /\ client' = IF driver THEN get_client(client, cfault) ELSE client
              /\ call' =
                    IF out.raises = "none"
                    THEN [tried EXCEPT !.pc = "returned", !.reply = out.reply]
                    ELSE IF IsPyMongoError(driver, out.raises)
                    THEN [tried EXCEPT !.exc = out.raises,
                                       !.delays = Append(@, Sleep(call.attempt)),
                                       !.attempt = @ + 1]
                    ELSE [tried EXCEPT !.pc = "raised", !.exc = out.raises]
    /\ UNCHANGED << driver, pool, pageVars, sharedVars, pureVars >>

\* the loop is exhausted: raise last_exc
SaveRaise ==
    /\ call.pc = "running"
    /\ call.attempt > SAVE_RETRIES
    /\ call' = [call EXCEPT !.pc = "raised"]
    /\ UNCHANGED << driver, collection, client, pool, pageVars, sharedVars, pureVars >>

\* the caller has the reply or the exception and goes on
SaveDone ==
    /\ call.pc \in {"returned", "raised"}
    /\ call' = IdleCall
    /\ UNCHANGED << driver, collection, client, pool, pageVars, sharedVars, pureVars >>

StoreInitAll == PageIdle /\ SharedIdle /\ StoreInit /\ PureIdle

StoreNext == SaveCall \/ SaveAttempt \/ SaveRaise \/ SaveDone

StoreSpec == StoreInitAll /\ [][StoreNext]_vars

\* the wrapper is straight-line code in the caller's thread: a started pass
\* of the loop is carried out, and so is the raise after the loop
FairStoreSpec == StoreSpec /\ WF_vars(SaveAttempt) /\ WF_vars(SaveRaise)

\* ------------------------------------------------ the mileage normalizers
\* arg is the mileage text; ret.utils is what templates/utils.parse_mileage
\* returned for it and ret.norm what SchemaNormalizer.normalize_mileage did
OthersIdle == PageIdle /\ SharedIdle /\ StoreIdle

MileageInit ==
    /\ OthersIdle
    /\ arg \in MileageTexts
    /\ ret = [utils |-> NotCalled, norm |-> NotCalled]

ParseMileage ==
    /\ ret.utils = NotCalled
    /\ ret' = [ret EXCEPT !.utils = parse_mileage(arg)]
    /\ UNCHANGED << arg, pageVars, sharedVars, storeVars >>

NormalizeMileage ==
    /\ ret.norm = NotCalled
    /\ ret' = [ret EXCEPT !.norm = normalize_mileage(arg)]
    /\ UNCHANGED << arg, pageVars, sharedVars, storeVars >>

MileageNext == ParseMileage \/ NormalizeMileage

MileageSpec == MileageInit /\ [][MileageNext]_vars

\* --------------------------------------------------- the year normalizers
\* arg.text is the text, arg.now the current year and arg.supplied the year
\* the strategy put into its output; ret holds what parse_year,
\* normalize_year and finalize_detail_output made of them
YearInit ==
    /\ OthersIdle
    /\ arg \in [text : YearTexts, now : CurrentYears, supplied : SuppliedYears]
    /\ ret = [utils |-> NotCalled, norm |-> NotCalled, final |-> NotCalled]

ParseYear ==
    /\ ret.utils = NotCalled
    /\ ret' = [ret EXCEPT !.utils = parse_year(arg.text)]
    /\ UNCHANGED << arg, pageVars, sharedVars, storeVars >>

NormalizeYear ==
    /\ ret.norm = NotCalled
    /\ ret' = [ret EXCEPT !.norm = normalize_year(arg.text, arg.now)]
    /\ UNCHANGED << arg, pageVars, sharedVars, storeVars >>

FinalizeYear ==
    /\ ret.final = NotCalled
    /\ ret' = [ret EXCEPT !.final = finalize_year(arg.supplied, arg.text)]
    /\ UNCHANGED << arg, pageVars, sharedVars, storeVars >>

YearNext == ParseYear \/ NormalizeYear \/ FinalizeYear

YearSpec == YearInit /\ [][YearNext]_vars

\* ------------------------------------- detail_jsonld_vehicle on one page
\* arg is the page; ret.plain is the record of JSONLDVehicleTemplate and
\* ret.detail the record of DetailJSONLDVehicle, which calls it first
ConfidenceInit ==
    /\ OthersIdle
    /\ arg \in JsonLdPages
    /\ ret = [plain |-> NoRecord, detail |-> NoRecord]

ParseJSONLDVehicle ==
    /\ ret.plain = NoRecord
    /\ ret' = [ret EXCEPT !.plain = JSONLDVehicle_record(arg.veh)]
    /\ UNCHANGED << arg, pageVars, sharedVars, storeVars >>

ParseDetailJSONLDVehicle ==
    /\ ret.detail = NoRecord
    /\ ret' = [ret EXCEPT !.detail = DetailJSONLDVehicle_record(arg)]
    /\ UNCHANGED << arg, pageVars, sharedVars, storeVars >>

ConfidenceNext == ParseJSONLDVehicle \/ ParseDetailJSONLDVehicle

ConfidenceSpec == ConfidenceInit /\ [][ConfidenceNext]_vars

\* -------------------------------------- get_listing_urls on one listing page
\* arg.found are the hrefs of the page in discovery order and arg.page_url
\* its URL; ret.called are the variants that were run and ret.urls[v] is the
\* list variant v returned
ListingInit ==
    /\ OthersIdle
    /\ arg \in [found : FoundHrefs, page_url : PageUrls]
    /\ ret = [called |-> {}, urls |-> [v \in ListingVariants |-> << >>]]

Returned(v, urls) ==
    /\ v \notin ret.called
    /\ ret' = [called |-> ret.called \cup {v}, urls |-> [ret.urls EXCEPT ![v] = urls]]
    /\ UNCHANGED << arg, pageVars, sharedVars, storeVars >>

CardListingUrls == Returned("card", listing_urls(arg.found, arg.page_url))

GridListingUrls == Returned("grid", listing_urls(arg.found, arg.page_url))

JsonListingUrls == Returned("json", json_listing_urls(arg.found, arg.page_url))

AjaxListingUrls == Returned("ajax", listing_urls(arg.found, arg.page_url))

ListingNext == CardListingUrls \/ GridListingUrls \/ JsonListingUrls \/ AjaxListingUrls

ListingSpec == ListingInit /\ [][ListingNext]_vars

\* ------------------------------------------ normalizers on unparseable text
\* A text is an optional currency mark followed by a body: nothing, words
\* without a digit ("POA"), a malformed number ("1.2.3"), or the numeral of a
\* power of ten, 1 followed by `zeros` zeros, with or without a trailing k.
\* Numbers are kept as their decimal exponent.

\* sys.float_info.max_10_exp: 10^308 is a float, 10^309 is not
DBL_MAX_10_EXP == 308

\* the exponents around the end of the float range, and two small ones
Exponents == {1, 3, DBL_MAX_10_EXP - 3, DBL_MAX_10_EXP - 2, DBL_MAX_10_EXP, DBL_MAX_10_EXP + 1}

NormTexts ==
    {t \in [body : {"blank", "words", "dots", "power"}, zeros : Exponents,
            k : BOOLEAN, cur : {"none", "code", "symbol"}] :
        t.body # "power" => (t.zeros = 1 /\ ~t.k)}

\* not txt
IsEmptyText(t) == t.body = "blank" /\ t.cur = "none"

\* a value a normalizer returns: None, a string, the plain number n, the power
\* of ten 10^exp or the float inf; currency is filled by the price parsers
Val(kind, exp, n) == [kind |-> kind, exp |-> exp, n |-> n, currency |-> None]

NoneVal == Val("none", 0, 0)

Pow10(e) == Val("num", e, 0)

Inf == Val("inf", 0, 0)

\* the pair (amount, currency)
Priced(amount, currency) == [amount EXCEPT !.currency = currency]

\* float(s) for the numeral of 10^e: out of range gives inf, not an exception
float_of(e) == IF e > DBL_MAX_10_EXP THEN Inf ELSE Pow10(e)

\* x * 1000 on floats
times_1000(x) == IF x = Inf THEN Inf ELSE float_of(x.exp + 3)

\* int(round(x)): OverflowError on an infinite float
int_round(x) == IF x = Inf THEN [raises |-> "OverflowError", value |-> NoneVal] ELSE Returns(x)

\* the currency both parse_price functions report
CurrencyOf(t) == IF t.cur = "none" THEN None ELSE "GBP"

\* templates/utils.py parse_price: letters are stripped, float() is guarded
utils_parse_price(t) ==
    IF IsEmptyText(t) THEN Returns(Priced(NoneVal, None))
    ELSE IF t.body = "power"
         THEN Returns(Priced(float_of(t.zeros), CurrencyOf(t)))
         ELSE Returns(Priced(NoneVal, CurrencyOf(t)))

\* SchemaNormalizer.normalize_price: only symbols, commas and spaces are
\* stripped, so a currency code or a k makes int() fail; int() is guarded
normalize_price(t) ==
    IF t.body = "power" /\ ~t.k /\ t.cur # "code" THEN Returns(Pow10(t.zeros))
    ELSE Returns(NoneVal)

\* schema_normalizer.parse_price
sn_parse_price(t) ==
    IF IsEmptyText(t) THEN Returns(Priced(NoneVal, None))
    ELSE Returns(Priced(normalize_price(t).value, CurrencyOf(t)))

\* both mileage parsers on these texts: the first numeric token, float() in
\* a try block, then int(round(...)) outside of it
mileage_of(t) ==
    IF t.body \in {"blank", "words", "dots"} THEN Returns(NoneVal)
    ELSE int_round(IF t.k THEN times_1000(float_of(t.zeros)) ELSE float_of(t.zeros))

\* both year parsers on these texts: only the two-digit numeral "10" is taken
year_of(t) ==
    IF t.body = "power" /\ t.zeros = 1 /\ ~t.k THEN Returns(Val("num", 0, 2010))
    ELSE Returns(NoneVal)

\* both brand normalizers: None for an empty text, else a string
brand_of(t) ==
    IF IsEmptyText(t) THEN Returns(NoneVal) ELSE Returns(Val("str", 0, 0))

Normalizers ==
    {"utils.parse_price", "utils.parse_mileage", "utils.parse_year",
     "utils.normalize_brand", "sn.parse_price", "sn.normalize_price",
     "sn.normalize_mileage", "sn.normalize_year", "sn.normalize_brand"}

NormalizeInit ==
    /\ OthersIdle
    /\ arg \in NormTexts
    /\ ret = [fn |-> "none"]

\* one normalizer called on the text; an exception it lets through is kept
NormCalled(fn, out) ==
    /\ ret.fn = "none"
    /\ ret' = [fn |-> fn, raises |-> out.raises, value |-> out.value]
    /\ UNCHANGED << arg, pageVars, sharedVars, storeVars >>

\* what normalizer fn does with text t
Outcome(fn, t) ==
    CASE fn = "utils.parse_price" -> utils_parse_price(t)
      [] fn = "sn.parse_price" -> sn_parse_price(t)
      [] fn = "sn.normalize_price" -> normalize_price(t)
      [] fn \in {"utils.parse_mileage", "sn.normalize_mileage"} -> mileage_of(t)
      [] fn \in {"utils.parse_year", "sn.normalize_year"} -> year_of(t)
      [] OTHER -> brand_of(t)

NormalizeNext == \E fn \in Normalizers : NormCalled(fn, Outcome(fn, arg))

NormalizeSpec == NormalizeInit /\ [][NormalizeNext]_vars

\* --------------------------------------------- the JSON-LD vehicle-type test
\* A type name is a sequence of tokens, words and the separators "/" and "#";
\* an item of a type list is a string (a name) or something else.
TypeNames ==
    { << "Vehicle" >>, << "Car" >>, << "car" >>, << "AUTOMOBILE" >>,
      << "VehicleModel" >>, << "Product" >>, << "Carpet" >>,
      << "schema.org", "/", "Car" >>, << "schema.org", "#", "Vehicle" >>,
      << "schema.org", "/", "VehicleModel" >>,
      << "Car", "/", "Offer" >>, << "Car", "#", "Offer" >>,
      << "vocab", "#", "x", "/", "Automobile" >>, << "Car", "/" >> }

StrItem(name) == [isStr |-> TRUE, toks |-> name]

\* an item of a type list that is not a string (a dict, a number)
NonStrItem == [isStr |-> FALSE, toks |-> << >>]

\* bound: the longest list held by a type field
MaxTypes == 2

\* the lists a type field can hold: strings of four names and other items
TypeLists ==
    LET names == { << "Car" >>, << "VehicleModel" >>, << "Product" >>,
                   << "schema.org", "/", "Car" >> }
        items == {StrItem(n) : n \in names} \cup {NonStrItem}
    IN  UNION {[1..n -> items] : n \in 0..MaxTypes}

\* the values of an object's type field: missing, a string, a list, or
\* another JSON value (a dict, a number)
TypeValues ==
    {[kind |-> "absent", items |-> << >>], [kind |-> "other", items |-> << >>]}
    \cup {[kind |-> "str", items |-> << StrItem(n) >>] : n \in TypeNames}
    \cup {[kind |-> "list", items |-> l] : l \in TypeLists}

\* bool(type_value): a missing field and an empty list are falsy
Truthy(tv) == tv.kind \in {"str", "other"} \/ (tv.kind = "list" /\ tv.items # << >>)

\* s.split(sep)[-1]
LastAfter(toks, sep) ==
    LET at == {i \in 1..Len(toks) : toks[i] = sep}
    IN  IF at = {} THEN toks ELSE SubSeq(toks, SetMax(at) + 1, Len(toks))

\* str.lower on the words of the model
Lower(w) ==
    CASE w = "Vehicle" -> "vehicle"
      [] w \in {"Car", "car"} -> "car"
      [] w = "AUTOMOBILE" -> "automobile"
      [] w = "Automobile" -> "automobile"
      [] w = "VehicleModel" -> "vehiclemodel"
      [] w = "Product" -> "product"
      [] w = "Carpet" -> "carpet"
      [] w = "Offer" -> "offer"
      [] OTHER -> w

\* t.split('/')[-1].split('#')[-1], lower-cased; "" when nothing is left
LocalName(toks) ==
    LET local == LastAfter(LastAfter(toks, "/"), "#")
    IN  IF local = << >> THEN "" ELSE Lower(local[1])

VEHICLE_TYPE_NAMES == {"vehicle", "car", "automobile", "vehiclemodel"}

\* engine._extract_jsonld_type_names: the local names of the string items
extract_jsonld_type_names(tv) ==
    IF tv.kind \in {"str", "list"}
    THEN {LocalName(tv.items[i].toks) : i \in {j \in 1..Len(tv.items) : tv.items[j].isStr}}
    ELSE {}

\* engine._is_jsonld_vehicle on a dict
is_jsonld_vehicle(tv) ==
    Truthy(tv) /\ extract_jsonld_type_names(tv) \cap VEHICLE_TYPE_NAMES # {}

\* the names jsonld_vehicle._is_vehicle accepts (line 35)
IsVehicleNames == {"vehicle", "car", "automobile"}

\* str(t) of a type value that is neither a string nor a list
StrOfOther == << "{...}" >>

\* jsonld_vehicle._is_vehicle on a dict
is_vehicle(tv) ==
    LET types == IF tv.kind = "list"
                 THEN {LocalName(tv.items[i].toks) :
                          i \in {j \in 1..Len(tv.items) : tv.items[j].isStr}}
                 ELSE IF tv.kind = "str" THEN {LocalName(tv.items[1].toks)}
                 ELSE {LocalName(StrOfOther)}
    IN  Truthy(tv) /\ types \cap IsVehicleNames # {}

TypeInit ==
    /\ OthersIdle
    /\ arg \in TypeValues
    /\ ret = [scorer |-> "none", strategy |-> "none"]

\* the scorer's test on an object with this type field (engine.py:113-115)
IsJsonldVehicle ==
    /\ ret.scorer = "none"
    /\ ret' = [ret EXCEPT !.scorer = IF is_jsonld_vehicle(arg) THEN "yes" ELSE "no"]
    /\ UNCHANGED << arg, pageVars, sharedVars, storeVars >>

\* the strategy's test on the same object (jsonld_vehicle.py:56)
IsVehicle ==
    /\ ret.strategy = "none"
    /\ ret' = [ret EXCEPT !.strategy = IF is_vehicle(arg) THEN "yes" ELSE "no"]
    /\ UNCHANGED << arg, pageVars, sharedVars, storeVars >>

TypeNext == IsJsonldVehicle \/ IsVehicle

TypeSpec == TypeInit /\ [][TypeNext]_vars

\* ------------------------------------- embedded structured-data blocks
\* The parsed content of one script block of type application/ld+json: an
\* object, an array of objects, an object holding a @graph list of objects,
\* or text that is no JSON.  An object is kept as the value of its type field.

\* bound: the largest number of objects in one array or @graph list
MaxNodes == 2

\* bound: the largest number of script blocks in a document
MaxBlocks == 2

CarType == [kind |-> "str", items |-> << StrItem(<< "Car" >>) >>]

NoType == [kind |-> "absent", items |-> << >>]

NodeTypes ==
    {CarType, NoType, [kind |-> "str", items |-> << StrItem(<< "Product" >>) >>]}

Blocks ==
    {[kind |-> "invalid", nodes |-> << >>]}
    \cup {[kind |-> "object", nodes |-> << t >>] : t \in NodeTypes}
    \cup {[kind |-> k, nodes |-> l] :
             k \in {"array", "graph"},
             l \in UNION {[1..n -> NodeTypes] : n \in 0..MaxNodes}}

JsonLdDocs == UNION {[1..n -> Blocks] : n \in 1..MaxBlocks}

\* an object of a document: the block it is in and its place in the block's
\* list, 0 for the top-level object of the block
Obj(b, i, type) == [block |-> b, at |-> i, type |-> type]

\* utils.extract_jsonld_objects: the items of a top-level array one by one,
\* any other dict as it is, so the holder of a @graph list is one object
extract_jsonld_objects(d) ==
    UNION {
        CASE d[b].kind = "array" -> {Obj(b, i, d[b].nodes[i]) : i \in 1..Len(d[b].nodes)}
          [] d[b].kind = "object" -> {Obj(b, 0, d[b].nodes[1])}
          [] d[b].kind = "graph" -> {Obj(b, 0, NoType)}
          [] OTHER -> {}
        : b \in 1..Len(d)}

\* engine.py:113-115
has_jsonld_vehicle(d) ==
    \E o \in extract_jsonld_objects(d) : is_jsonld_vehicle(o.type)

\* the nodes JSONLDVehicleTemplate.parse_car_page iterates: the inner nodes of
\* a @graph holder in place of the holder
parse_car_page_nodes(d) ==
    UNION {
        CASE d[b].kind \in {"array", "graph"} ->
                {Obj(b, i, d[b].nodes[i]) : i \in 1..Len(d[b].nodes)}
          [] d[b].kind = "object" -> {Obj(b, 0, d[b].nodes[1])}
          [] OTHER -> {}
        : b \in 1..Len(d)}

\* whether parse_car_page finds a vehicle node to extract from
parse_car_page_finds(d) ==
    \E o \in parse_car_page_nodes(d) : is_vehicle(o.type)

JsonLdInit ==
    /\ OthersIdle
    /\ arg \in JsonLdDocs
    /\ ret = [signal |-> "none", seen |-> {}, found |-> "none", nodes |-> {}]

\* detect up to the has_jsonld_vehicle signal (engine.py:102-115)
ExtractSignals ==
    /\ ret.signal = "none"
    /\ ret' = [ret EXCEPT !.signal = IF has_jsonld_vehicle(arg) THEN "yes" ELSE "no",
                          !.seen = extract_jsonld_objects(arg)]
    /\ UNCHANGED << arg, pageVars, sharedVars, storeVars >>

\* JSONLDVehicleTemplate.parse_car_page on the same document
ParseCarPage ==
    /\ ret.found = "none"
    /\ ret' = [ret EXCEPT !.found = IF parse_car_page_finds(arg) THEN "yes" ELSE "no",
                          !.nodes = parse_car_page_nodes(arg)]
    /\ UNCHANGED << arg, pageVars, sharedVars, storeVars >>

JsonLdNext == ExtractSignals \/ ParseCarPage

JsonLdSpec == JsonLdInit /\ [][JsonLdNext]_vars

\* ------------------------------------------- finalize_detail_output, by value
\* A dict is a function from keys to abstract values: "absent" (no such key),
\* "None", "empty" (a falsy value other than None: '' or 0 or {}), or a token
\* naming a truthy value.
Missing == "absent"

IsTrue(v) == v \notin {Missing, None, "empty"}

\* the input dicts: the keys they can hold and the values of each
InputDicts ==
    [brand : {Missing, "empty", "Ford"},
     year : {Missing, "empty", "2015"},
     name : {Missing, "with_year", "no_year"},
     price_value : {Missing, "zero", "9500.0"},
     price : {Missing, "num", "text", "bad"},
     currency : {Missing, "empty", "EUR"},
     mileage_value : {Missing, "zero", "41000"},
     mileage_unit : {Missing, "empty", "km"},
     mileage : {Missing, "good", "bad"},
     raw : {Missing, "node"},
     _source : {"html"}]

InputKeys ==
    {"brand", "year", "name", "price_value", "price", "currency",
     "mileage_value", "mileage_unit", "mileage", "raw", "_source"}

\* out.get(k)
Get(d, k) == IF k \in DOMAIN d /\ d[k] # Missing THEN d[k] ELSE None

\* a or b
Or(a, b) == IF IsTrue(a) THEN a ELSE b

\* parse_year(name) on the names of the model
parse_year_of_name(name) == IF name = "with_year" THEN "2018" ELSE None

\* parse_price(price_raw) on the prices of the model: (amount, currency)
parse_price_of(raw) ==
    IF raw = "text" THEN [amt |-> "12000.0", cur |-> "GBP"]
    ELSE [amt |-> None, cur |-> None]

\* parse_mileage(mtxt) on the mileage texts of the model: (value, unit)
parse_mileage_of(mtxt) ==
    IF mtxt = "good" THEN [value |-> "30000", unit |-> "mi"]
    ELSE [value |-> None, unit |-> None]

\* the value finalize_detail_output assigns to canonical key k of dict(data)
Finalized(d, k) ==
    LET price_value == Get(d, "price_value")
        price_raw == Or(Get(d, "price_raw"), Get(d, "price"))
        parses == price_value = None /\ Get(d, "price") # "num"
        m_val == Get(d, "mileage_value")
        mtxt == Get(d, "mileage")
        reparsed == m_val = None /\ IsTrue(mtxt)
    IN  CASE k = "raw" -> Or(Get(d, "raw"), None)
          [] k = "year" ->
                IF IsTrue(Get(d, "year")) THEN Get(d, "year")
                ELSE parse_year_of_name(Or(Get(d, "name"), Get(d, "title")))
          [] k = "price_value" ->
                IF price_value # None THEN price_value
                ELSE IF Get(d, "price") = "num" THEN "float(price)"
                ELSE parse_price_of(price_raw).amt
          [] k = "price_raw" -> price_raw
          [] k = "currency" ->
                IF parses /\ ~IsTrue(Get(d, "currency"))
                THEN Or(parse_price_of(price_raw).cur, None)
                ELSE Or(Get(d, "currency"), None)
          [] k = "mileage_value" ->
                IF reparsed THEN parse_mileage_of(mtxt).value ELSE m_val
          [] k = "mileage_unit" ->
                IF reparsed THEN parse_mileage_of(mtxt).unit ELSE Get(d, "mileage_unit")
          [] OTHER -> Or(Get(d, k), None)

\* finalize_detail_output(data): a copy of data with every canonical key assigned
finalize_detail_output_values(d) ==
    [k \in DOMAIN d \cup REQUIRED_DETAIL_KEYS |->
        IF k \in REQUIRED_DETAIL_KEYS THEN Finalized(d, k) ELSE d[k]]

FinalizeInit ==
    /\ OthersIdle
    /\ arg \in InputDicts
    /\ ret = << >>

\* one call; data is only read (out = dict(data or {}), line 255)
FinalizeDetailOutput ==
    /\ ret = << >>
    /\ ret' = finalize_detail_output_values(arg)
    /\ UNCHANGED << arg, pageVars, sharedVars, storeVars >>

FinalizeNext == FinalizeDetailOutput

FinalizeSpec == FinalizeInit /\ [][FinalizeNext]_vars

\* ------------------------------ json_api_listing: URL strings in a payload
\* A string the scanner accepts (line 108) is written in one of four forms:
\* http://host/path, https://host/path, //host/path or /path.  A path is the
\* sequence of its non-empty segments, already lower-case.
ALLOWED_DOMAINS == {"example.com"}

LISTING_PATH_SEGMENTS ==
    {"car", "cars", "listing", "listings", "vehicle", "vehicles", "stock", "used"}

MAX_CHECK_SEGMENTS == 3

UrlPaths ==
    { << "cars", "123" >>, << "vehicle", "ford-fiesta" >>, << "about", "cars" >>,
      << "a", "b", "c", "cars", "123" >>, << >> }

UrlStrings ==
    [form : {"http", "https", "relative_scheme"}, host : {"example.com", "other.org"},
     path : UrlPaths]
    \cup [form : {"path"}, host : {""}, path : UrlPaths]

\* urlparse(url_str).scheme
SchemeOf(u) == IF u.form \in {"http", "https"} THEN u.form ELSE ""

\* token.isdigit() or SLUG_RE.match(token), on the segments of the model
PlausibleToken(tok) ==
    tok \in {"123", "ford-fiesta", "cars", "about"}

\* the first of the leading MAX_CHECK_SEGMENTS segments that is a listing
\* segment decides: a plausible token must follow it
PathIsListing(segments) ==
    LET hits == {i \in 1..Min(Len(segments), MAX_CHECK_SEGMENTS) :
                    segments[i] \in LISTING_PATH_SEGMENTS}
    IN  /\ hits # {}
        /\ LET idx == CHOOSE i \in hits : \A j \in hits : i <= j
           IN  idx + 1 <= Len(segments) /\ PlausibleToken(segments[idx + 1])

\* JSONAPIListingTemplate._is_listing_url
is_listing_url(u) ==
    IF SchemeOf(u) \in {"http", "https"} /\ u.host # "" /\ u.host \notin ALLOWED_DOMAINS
    THEN FALSE
    ELSE PathIsListing(u.path)

\* the pages the payloads are embedded in
JsonPageUrls ==
    {[scheme |-> "https", host |-> "example.com"],
     [scheme |-> "http", host |-> "dealer.test"]}

\* urllib.parse.urljoin(page_url, u): a string with a scheme stands, //host
\* takes the scheme of the page, a path takes its scheme and host
urljoin_string(page_url, u) ==
    CASE u.form \in {"http", "https"} -> [scheme |-> u.form, host |-> u.host, path |-> u.path]
      [] u.form = "relative_scheme" ->
            [scheme |-> page_url.scheme, host |-> u.host, path |-> u.path]
      [] OTHER -> [scheme |-> page_url.scheme, host |-> page_url.host, path |-> u.path]

\* bound: the largest number of URL strings in the JSON payloads of a page
MaxUrls == 2

\* the strings of the payloads in the order _find_urls_in_obj meets them
Payloads == UNION {[1..n -> UrlStrings] : n \in 0..MaxUrls}

\* JSONAPIListingTemplate.get_listing_urls
json_api_get_listing_urls(payload, page_url) ==
    LET raw_urls == SelectSeq(payload, is_listing_url)
    IN  Dedupe([i \in 1..Len(raw_urls) |-> urljoin_string(page_url, raw_urls[i])])

JsonApiInit ==
    /\ OthersIdle
    /\ arg \in [payload : Payloads, page_url : JsonPageUrls]
    /\ ret = [called |-> FALSE, urls |-> << >>]

JsonApiGetListingUrls ==
    /\ ~ret.called
    /\ ret' = [called |-> TRUE,
               urls |-> json_api_get_listing_urls(arg.payload, arg.page_url)]
    /\ UNCHANGED << arg, pageVars, sharedVars, storeVars >>

JsonApiNext == JsonApiGetListingUrls

JsonApiSpec == JsonApiInit /\ [][JsonApiNext]_vars

\* ----------------------------------- workers sharing the cached MongoClient
\* pool.calls[w] is worker w inside get_client (reached through save_listing
\* and get_collection): "idle" outside of it, "construct" after it found
\* _client None, "store" with the new client in hand, "return" before the
\* return statement reads _client.  pool.made counts the clients built and
\* pool.handed collects the values returned since the last close_client;
\* pool.total counts every client built.  A client is named by its number.

\* bound: the number of clients built in one run
MaxClients == 3

IdleGetter == [pc |-> "idle", local |-> NoClient]

ClientInit ==
    /\ PageIdle
    /\ SharedIdle
    /\ PureIdle
    /\ driver \in BOOLEAN
    /\ collection = {}
    /\ call = << >>
    /\ client = NoClient
    /\ pool = [calls |-> [w \in Workers |-> IdleGetter], made |-> 0, handed |-> {},
               total |-> 0, error |-> FALSE]

ClientFrame == UNCHANGED << driver, collection, call, pageVars, sharedVars, pureVars >>

\* if _client is None: ... if MongoClient is None: raise RuntimeError
GetClientCheck(w) ==
    /\ pool.calls[w].pc = "idle"
    /\ pool' =
          IF client # NoClient THEN [pool EXCEPT !.calls[w].pc = "return"]
          ELSE IF ~driver THEN [pool EXCEPT !.error = TRUE]
          ELSE [pool EXCEPT !.calls[w].pc = "construct"]
    /\ UNCHANGED client
    /\ ClientFrame

\* MongoClient(MONGO_URI, ...) is evaluated
GetClientConstruct(w) ==
    /\ pool.calls[w].pc = "construct"
    /\ pool.total < MaxClients
    /\ pool' = [pool EXCEPT !.calls[w] = [pc |-> "store", local |-> pool.total + 1],
                            !.made = @ + 1, !.total = @ + 1]
    /\ UNCHANGED client
    /\ ClientFrame

\* _client = <the new client>
GetClientStore(w) ==
    /\ pool.calls[w].pc = "store"
    /\ client' = pool.calls[w].local
    /\ pool' = [pool EXCEPT !.calls[w].pc = "return"]
    /\ ClientFrame

\* return _client
GetClientReturn(w) ==
    /\ pool.calls[w].pc = "return"
    /\ pool' = [pool EXCEPT !.calls[w] = IdleGetter, !.handed = @ \cup {client}]
    /\ UNCHANGED client
    /\ ClientFrame

\* close_client(): if _client: close it; finally _client = None
CloseClient ==
    /\ client' = NoClient
    /\ pool' = [pool EXCEPT !.made = 0, !.handed = {}]
    /\ ClientFrame

ClientNext ==
    \/ \E w \in Workers :
          \/ GetClientCheck(w) \/ GetClientConstruct(w)
          \/ GetClientStore(w) \/ GetClientReturn(w)
    \/ CloseClient

ClientSpec == ClientInit /\ [][ClientNext]_vars

\* ------------------------------------------------------------------ claims
\* the candidates of the last detect call that hold the maximum score
TiedAtMax ==
    {c \in candidates : \A o \in candidates : o.score <= c.score}

\* category priority as the specification states it:
\* detail > listing > pagination > site_info (the code's 'dealer')
CategoryRank(categ) ==
    CASE categ = "detail" -> 4
      [] categ = "listing" -> 3
      [] categ = "pagination" -> 2
      [] OTHER -> 1

\* the tied candidates of the highest category present among them
TopTied ==
    {c \in TiedAtMax : \A o \in TiedAtMax : CategoryRank(o.categ) <= CategoryRank(c.categ)}

RegistrationIndex(tpl) == CHOOSE i \in 1..Len(ALL_TEMPLATES) : ALL_TEMPLATES[i] = tpl

\* C1: when several candidates tie at the maximum score, the winner is a tied
\* candidate of the highest-priority category among them (detail > listing >
\* pagination > site_info); a listing tied with a pagination resolves to a listing.
C1_TieBreakByCategory ==
    (pc # "ready" /\ Cardinality(TiedAtMax) > 1) =>
        /\ \E w \in TopTied : w.tpl = selected
        /\ ((\E c \in TiedAtMax : c.categ = "listing")
                /\ (\A c \in TiedAtMax : c.categ \in {"listing", "pagination"})
            => selected \in LISTING_TEMPLATES)

\* C1 witness: a listing and a pagination candidate tie at the maximum and a
\* listing template has been selected.
C1_Witness ==
    /\ pc = "detected"
    /\ \E l \in TiedAtMax, p \in TiedAtMax : l.categ = "listing" /\ p.categ = "pagination"
    /\ selected \in LISTING_TEMPLATES

\* C2: whenever there are candidates, the strategy detect returns is one of
\* them and its score is the maximum over all candidates, whatever its category.
C2_WinnerHasMaxScore ==
    (pc # "ready" /\ candidates # {}) =>
        \E w \in candidates :
            /\ w.tpl = selected
            /\ \A o \in candidates : o.score <= w.score

\* C2 witness: the winner beat a candidate of a higher-priority category that
\* had a strictly lower score.
C2_Witness ==
    /\ pc = "detected"
    /\ \E w \in candidates, o \in candidates :
          /\ w.tpl = selected
          /\ o.score < w.score
          /\ CategoryRank(o.categ) > CategoryRank(w.categ)

\* C3: when several candidates tie at the maximum score and share the highest
\* category priority, detect returns the one registered first in ALL_TEMPLATES.
C3_TieBreakByRegistration ==
    (pc # "ready" /\ Cardinality(TopTied) > 1) =>
        /\ \E w \in TopTied : w.tpl = selected
        /\ \A o \in TopTied : RegistrationIndex(selected) <= RegistrationIndex(o.tpl)

\* C3 witness: detail_hybrid_json_html and detail_jsonld_vehicle tie at the
\* top and the hybrid template, registered first, has been selected.
C3_Witness ==
    /\ pc = "detected"
    /\ \E a \in TopTied, b \in TopTied :
          a.tpl = "detail_hybrid_json_html" /\ b.tpl = "detail_jsonld_vehicle"
    /\ selected = "detail_hybrid_json_html"

\* C4: without candidates detect returns None and raises nothing, and
\* scrape_file returns template 'no_template' with 'car' and 'dealer' null,
\* having called no extraction capability.
C4_NoCandidatesIsNone ==
    (pc # "ready" /\ candidates = {}) =>
        /\ selected = None
        /\ raised = "none"
        /\ pc = "scraped" =>
              /\ result.template = "no_template"
              /\ result.keys = {"sample", "template", "car", "dealer"}
              /\ result.car.isNone /\ result.dealer.isNone
              /\ calls = {}

\* C4 witness: scrape_file has returned for a document without candidates.
C4_Witness ==
    pc = "scraped" /\ candidates = {} /\ result.template = "no_template"

\* C5: every document classified as detail yields a record whose key set is
\* the canonical set exactly (plus provenance), no more and no fewer.
C5_CanonicalKeysExactly ==
    (pc = "scraped" /\ selected \in DetailNames) =>
        /\ ~result.car.isNone
        /\ REQUIRED_DETAIL_KEYS \subseteq result.car.keys
        /\ result.car.keys \subseteq REQUIRED_DETAIL_KEYS \cup ProvenanceKeys

\* C6: parse_car_page of each of the four detail strategies returns a dict
\* holding all twelve canonical keys (absent data as null, never a missing key).
C6_AllCanonicalKeysPresent ==
    (pc = "scraped" /\ selected \in DetailNames) =>
        \A k \in REQUIRED_DETAIL_KEYS : k \in result.car.keys

\* C7: a document classified as listing, pagination or site-info yields no
\* canonical detail key: 'car' stays null and what the strategy returned (if it
\* did not signal unsupported) is disjoint from the canonical key set.
C7_NoLeakage ==
    (pc = "scraped" /\ selected \in TemplateNames \ DetailNames) =>
        /\ result.car.isNone
        /\ "parse_car_page" \in consumed \/ ~result.dealer.isNone
        /\ result.dealer.keys \cap REQUIRED_DETAIL_KEYS = {}
        /\ result.parsed_debug.keys \cap REQUIRED_DETAIL_KEYS = {}
        /\ result.keys \cap REQUIRED_DETAIL_KEYS = {}

\* C7 witness: the dealer strategy was selected and returned its record, raw
\* payload included.
C7_Witness ==
    /\ pc = "scraped"
    /\ selected = dealer_name
    /\ "_raw" \in result.dealer.keys

\* C8: the unsupported signal never reaches the caller of detect or scrape_file.
C8_UnsupportedNeverEscapes ==
    raised = "none"

\* C8 witness: scrape_file has returned after the selected template raised the
\* unsupported signal from parse_car_page.
C8_Witness ==
    /\ pc = "scraped"
    /\ "parse_car_page" \in consumed
    /\ selected \in LISTING_TEMPLATES \cup PAGINATION_TEMPLATES

\* C9: in a result of scrape_file 'car' is non-null only for a detail
\* template, 'dealer' only for dealer_info_jsonld, never both; 'listing_urls'
\* is present only for a listing template that returned links; listing and
\* pagination templates produce neither car nor dealer.
C9_ResultShape ==
    pc = "scraped" =>
        /\ ~result.car.isNone => result.template \in DetailNames
        /\ ~result.dealer.isNone => result.template = dealer_name
        /\ result.car.isNone \/ result.dealer.isNone
        /\ "listing_urls" \in result.keys =>
              result.template \in LISTING_TEMPLATES /\ result.listing_urls > 0
        /\ result.template \in LISTING_TEMPLATES \cup PAGINATION_TEMPLATES =>
              result.car.isNone /\ result.dealer.isNone

\* C9 witness: a result with listing_urls.
C9_Witness ==
    pc = "scraped" /\ "listing_urls" \in result.keys /\ result.listing_urls > 0

\* C10: calling detect again on the same document selects the same strategy,
\* in whatever order the listing and pagination sets are iterated.
C10_Deterministic ==
    [][(pc = "detected" /\ pc' = "detected" /\ candidates' = candidates)
            => selected' = selected]_vars

\* C10 witness: two listing strategies tie at the top, so that the order in
\* which they were appended could matter, and one of them has been selected.
C10_Witness ==
    /\ pc = "detected"
    /\ Cardinality({c \in TopTied : c.categ = "listing"}) > 1
    /\ selected \in LISTING_TEMPLATES

\* C11: whatever calls were made on the shared detector, by whichever callers
\* and however interleaved, the class-level weight table is all zeros, the
\* registry order is the registration order, and a finished detect call has
\* returned what a fresh detector returns for the same document
C11_NoCrossDocumentState ==
    /\ \A name \in DOMAIN table : table[name] = 0
    /\ registry = ALL_TEMPLATES
    /\ \A w \in Workers :
          worker[w].pc \in {"detected", "scraped"} =>
              \E lorder \in ListingOrders, porder \in PaginationOrders :
                  worker[w].selected = Select(Candidates(worker[w].doc, lorder, porder))

\* one caller has scored a detail document while the other, on a different
\* document, has finished detect in between
C11_Witness ==
    \E w1, w2 \in Workers :
        /\ w1 # w2
        /\ worker[w1].pc = "scoring"
        /\ \E name \in DOMAIN table : worker[w1].scores[name] > 0
        /\ worker[w2].pc \in {"detected", "scraped"}
        /\ worker[w2].doc # worker[w1].doc
        /\ worker[w2].selected = "listing_card"

\* C12: save_listing never lets an exception reach its caller: every call
\* ends with a result descriptor or an error-shaped result
C12_NeverRaises == call.pc # "raised"

\* C13: a write that failed with a connectivity error is sent again while
\* attempts are left: a call that ends with an error-shaped result has used
\* every attempt
C13_FailedWriteIsRetried ==
    (call.pc = "returned" /\ call.reply.kind = "error") => call.writes = SAVE_RETRIES

\* C14 as stated: at most SAVE_RETRIES invocations, and the delays grow
\* exponentially, each the same multiple (more than one) of the one before
C14_ExponentialBackoff ==
    /\ call.tries <= SAVE_RETRIES
    /\ \A k \in 1..Len(call.delays) :
          /\ k >= 2 => call.delays[k] > call.delays[k - 1]
          /\ k >= 3 => call.delays[k] * call.delays[k - 2]
                          = call.delays[k - 1] * call.delays[k - 1]

\* the wrapper's counters at every point of a call
RetryBounds ==
    /\ call.tries <= SAVE_RETRIES
    /\ call.attempt <= SAVE_RETRIES + 1
    /\ call.pc = "running" => call.tries = call.attempt - 1
    /\ call.pc = "returned" => call.tries = call.attempt
    /\ call.pc = "returned" => Len(call.delays) = call.tries - 1
    /\ call.pc = "raised" => call.tries \in {call.attempt, SAVE_RETRIES}
    /\ \A k \in 1..Len(call.delays) : call.delays[k] = SAVE_BACKOFF * k
    /\ Len(call.delays) <= SAVE_RETRIES

\* C14, amended: the body is invoked at most SAVE_RETRIES times; the wrapper
\* returns at the first invocation that does not raise; the delay after the
\* k-th failed attempt is k times the backoff (linear growth); and every
\* call ends, by a return or by a raise
C14_LinearBackoff ==
    /\ []RetryBounds
    /\ (call.pc = "running") ~> (call.pc \in {"returned", "raised"})

\* a call returned at its third invocation, after two sleeps
C14_Witness ==
    /\ call.pc = "returned"
    /\ call.tries = SAVE_RETRIES
    /\ Len(call.delays) = 2

\* the documents of the collection that carry the url u
WithUrl(u) == {d \in collection : d.url = u}

\* the record data is stored as it is: the document its filter selects has
\* every field data sets
StoredAsIs(data) ==
    /\ data.isDict
    /\ data.url # Absent
    /\ \E d \in collection :
          /\ d.url = data.url
          /\ d.body = data.body
          /\ data.vin # Absent => d.vin = data.vin

\* C15: the collection never holds two documents with the same url, and a
\* save of a record that is stored already matches the stored document,
\* inserts nothing and leaves the collection as it was
C15_UpsertIdempotent ==
    [][ /\ \A u \in {"u1", "u2"} : Cardinality({d \in collection' : d.url = u}) <= 1
        /\ ( /\ call.pc = "running"
             /\ call'.pc = "returned"
             /\ call'.reply.kind # "error"
             /\ StoredAsIs(call.data) )
           => ( /\ collection' = collection
                /\ call'.reply.matched = 1
                /\ ~call'.reply.upserted ) ]_vars

\* a record keyed by url was saved, then saved again: one document, matched
C15_Witness ==
    /\ call.pc = "returned"
    /\ call.reply.matched = 1
    /\ call.data.url = "u1"
    /\ Cardinality(WithUrl("u1")) = 1
    /\ \E d \in collection : d.url = "u2"
    /\ StoredAsIs(call.data)

\* C16: for a number N, plain or with comma separators, followed by a
\* kilometre unit, both normalizers return round(N * 0.621371)
C16_KilometresToMiles ==
    ( /\ ~arg.k
      /\ arg.sep \in {"none", "comma"}
      /\ arg.unit \in {"km", "kilometres"} )
    => /\ ret.utils \in {NotCalled, KmToMiles(NumberOf(arg))}
       /\ ret.norm \in {NotCalled, KmToMiles(NumberOf(arg))}

\* C17: every year returned by parse_year or normalize_year, and the year of
\* every finalized record, is null or lies in 1900 .. current year + 1
C17_YearInRange ==
    \A y \in {ret.utils, ret.norm, ret.final} :
        y \in {NotCalled, NoYear} \/ (1900 <= y /\ y <= arg.now + 1)

\* the first two-digit token of the text, or -1
FirstTwoDigit(s) ==
    IF \E i \in 1..Len(s) : s[i].kind = "d2"
    THEN s[CHOOSE i \in 1..Len(s) :
               s[i].kind = "d2" /\ \A j \in 1..(i - 1) : s[j].kind # "d2"].v
    ELSE -1

\* C18 as stated: with no four-digit token in 1900 .. current year + 1, both
\* normalizers return 2000+v (v <= 30) or 1900+v (v > 30) for the two-digit
\* token v, and null only when there is no two-digit token
C18_TwoDigitFallback ==
    LET v == FirstTwoDigit(arg.text)
        expected == IF v = -1 THEN NoYear ELSE IF v <= 30 THEN 2000 + v ELSE 1900 + v
    IN  (\A i \in 1..Len(arg.text) :
            ~(/\ arg.text[i].kind \in {"d4", "glued"}
              /\ 1900 <= arg.text[i].v /\ arg.text[i].v <= arg.now + 1))
        => /\ ret.utils \in {NotCalled, expected}
           /\ ret.norm \in {NotCalled, expected}

\* C18, amended: with no token holding four digits 19xx or 20xx at all, the
\* two-digit token v stands for 2000+v (v <= 30) or 1900+v (v > 30);
\* parse_year returns that year, normalize_year returns it when it is at most
\* current year + 1 and null when it is later, and both return null when
\* there is no two-digit token
C18_TwoDigitFallbackInRange ==
    LET v == FirstTwoDigit(arg.text)
        expected == IF v = -1 THEN NoYear ELSE IF v <= 30 THEN 2000 + v ELSE 1900 + v
    IN  (\A i \in 1..Len(arg.text) :
            ~(/\ arg.text[i].kind \in {"d4", "glued"}
              /\ 1900 <= arg.text[i].v /\ arg.text[i].v <= 2099))
        => /\ ret.utils \in {NotCalled, expected}
           /\ ret.norm \in {NotCalled, IF expected <= arg.now + 1 THEN expected ELSE NoYear}

\* "18" after a word gave 2018 in both, and "99" would give 1999
C18_Witness ==
    /\ Len(arg.text) = 2
    /\ arg.text[1].kind = "word"
    /\ arg.text[2] = [kind |-> "d2", v |-> 18]
    /\ ret.utils = 2018
    /\ ret.norm = 2018

\* the number of populated fields among brand, model and price of a record
Populated(r) ==
    (IF r.brand THEN 1 ELSE 0) + (IF r.model THEN 1 ELSE 0) + (IF r.price THEN 1 ELSE 0)

\* k/3 rounded to two decimals, in hundredths
Thirds(k) == CASE k = 0 -> 0 [] k = 1 -> 33 [] k = 2 -> 67 [] OTHER -> 100

FirstFound(u) ==
    LET hits == {i \in 1..Len(arg.found) : urljoin(arg.page_url, arg.found[i]) = u}
    IN  IF hits = {} THEN 0 ELSE CHOOSE i \in hits : \A j \in hits : i <= j

\* C20: the list a listing variant returns holds no URL twice, holds the URLs
\* in the order of their first discovery, and each entry is an href of the
\* page resolved against the page URL, absolute when the page URL is
C20_ListingLinkSet ==
    \A v \in ret.called :
        LET urls == ret.urls[v]
        IN  /\ \A i, j \in 1..Len(urls) : i # j => urls[i] # urls[j]
            /\ \A i \in 1..Len(urls) : FirstFound(urls[i]) # 0
            /\ \A i, j \in 1..Len(urls) :
                  i < j => FirstFound(urls[i]) < FirstFound(urls[j])
            /\ \A i \in 1..Len(urls) : arg.page_url.host # "" => urls[i].host # ""

\* a relative href found twice, once written with the host of the page, and
\* another one after it: two entries, in that order
C20_Witness ==
    /\ "card" \in ret.called
    /\ arg.page_url.host = "example.com"
    /\ Len(arg.found) = 3
    /\ arg.found[1] = [host |-> "", path |-> "/cars/a"]
    /\ arg.found[2] = [host |-> "", path |-> "/cars/b"]
    /\ arg.found[3] = [host |-> "example.com", path |-> "/cars/a"]
    /\ Len(ret.urls["card"]) = 2
    /\ ret.urls["card"][1].path = "/cars/a"

\* C21 as stated: a document with a structured vehicle object and a table of
\* specs is classified as detail_hybrid_json_html, whatever its other signals.
C21_VehicleWithTableIsHybrid ==
    (pc = "detected" /\ doc.has_jsonld_vehicle /\ doc.has_table)
        => selected = "detail_hybrid_json_html"

\* some listing strategy found enough links to outscore the hybrid strategy:
\* 3 links (6.0) against 5.0, or 4 links (8.0) against 6.67 with price meta
OutscoredByListing(d) ==
    \E name \in LISTING_TEMPLATES :
        d.links[name] >= (IF d.has_price_meta THEN 4 ELSE 3)

\* C21, amended: a document with a structured vehicle object and a table of
\* specs is classified as detail_hybrid_json_html exactly when it does not
\* show both a title year and microdata and no listing strategy finds 3 or
\* more links on it (4 or more when price meta is present); the next-page
\* link and the organization object never change the outcome.
C21_HybridUnlessOutscored ==
    (pc = "detected" /\ doc.has_jsonld_vehicle /\ doc.has_table)
        => (selected = "detail_hybrid_json_html"
              <=> (/\ ~(doc.has_title_year /\ doc.has_microdata)
                   /\ ~OutscoredByListing(doc)))

\* C21 witness: the hybrid strategy selected although price meta lifts
\* detail_jsonld_vehicle to the same score, a listing strategy found 3
\* links, and a next-page link and an organization object are present.
C21_Witness ==
    /\ pc = "detected"
    /\ doc.has_jsonld_vehicle /\ doc.has_table /\ doc.has_price_meta
    /\ doc.has_microdata /\ doc.has_org
    /\ \E name \in LISTING_TEMPLATES : doc.links[name] = 3
    /\ \E name \in PAGINATION_TEMPLATES : doc.next[name]
    /\ selected = "detail_hybrid_json_html"

\* C22: no normalizer for price, mileage, year or brand lets an exception
\* reach its caller, whatever the text.
C22_NormalizersNeverRaise ==
    ret.fn \in Normalizers => ret.raises = "none"

\* the score the specification gives a candidate of document d, in units of
\* 1/ScoreUnit: raw/6*10 or links/5*10 below the cap, 10 from the cap on,
\* 2 for a pagination strategy and 3 for the site-info strategy
StatedScore(d, c) ==
    CASE c.categ = "detail" ->
            IF DetailScore(d, c.tpl) >= 6 THEN 10 * ScoreUnit
            ELSE DetailScore(d, c.tpl) * 50
      [] c.categ = "listing" ->
            IF d.links[c.tpl] >= 5 THEN 10 * ScoreUnit
            ELSE d.links[c.tpl] * 60
      [] c.categ = "pagination" -> 2 * ScoreUnit
      [] OTHER -> 3 * ScoreUnit

\* C23: every candidate of detect has a score within [0,10]; it is the
\* capped and rescaled raw sum (detail) or link count (listing), the constant
\* 2 (pagination) or 3 (site-info); a raw sum or link count above its cap
\* gives exactly 10.
C23_ScoresInRange ==
    /\ \A raw \in 0..(DETAIL_SCORE_MAX + MaxCount) :
          normalize_detail_score(raw) =
              (IF raw >= 6 THEN 10 * ScoreUnit ELSE raw * 50)
    /\ pc = "detected" =>
          \A c \in candidates :
              /\ 0 <= c.score /\ c.score <= 10 * ScoreUnit
              /\ c.categ \in {"detail", "listing", "pagination", "dealer"}
              /\ c.score = StatedScore(doc, c)

\* C23 witness: detect produced a listing candidate from more links than the
\* cap, scored 10, next to a detail, a pagination and a site-info candidate.
C23_Witness ==
    /\ pc = "detected"
    /\ \E c \in candidates :
          c.categ = "listing" /\ doc.links[c.tpl] > LISTING_SCORE_MAX
              /\ c.score = 10 * ScoreUnit
    /\ \E c \in candidates : c.categ = "detail" /\ c.score = 250
    /\ \E c \in candidates : c.categ = "pagination"
    /\ \E c \in candidates : c.categ = "dealer"

\* the evidence document d holds for a candidate of template tpl
HasEvidence(d, tpl) ==
    CASE tpl \in LISTING_TEMPLATES -> d.links[tpl] > 0
      [] tpl \in PAGINATION_TEMPLATES -> d.next[tpl]
      [] tpl = "detail_hybrid_json_html" ->
            (d.has_jsonld_vehicle /\ d.has_specs) \/ d.has_price_meta
      [] tpl = "detail_jsonld_vehicle" -> d.has_jsonld_vehicle \/ d.has_price_meta
      [] tpl = "detail_inline_html_blocks" ->
            d.has_title_year \/ d.has_microdata \/ d.has_specs
      [] tpl = "detail_html_spec_table" -> d.has_table
      [] tpl = dealer_name -> d.has_org
      [] OTHER -> FALSE

\* C24: a strategy without evidence is never a candidate and is never
\* returned by detect: a listing strategy with zero links, a pagination
\* strategy without a next-page link, a detail strategy whose raw score is 0,
\* the site-info strategy without an Organization-type object.
C24_NoEvidenceNoCandidate ==
    pc \in {"detected", "scraped"} =>
        /\ \A c \in candidates : HasEvidence(doc, c.tpl)
        /\ \A c \in candidates : c.categ = "detail" => DetailScore(doc, c.tpl) > 0
        /\ selected # None => HasEvidence(doc, selected)

\* C24 witness: detect returned a strategy while a listing, a pagination, a
\* detail and the site-info strategy all lack evidence and are no candidates.
C24_Witness ==
    /\ pc = "detected"
    /\ selected # None
    /\ \E name \in LISTING_TEMPLATES :
          doc.links[name] = 0 /\ \A c \in candidates : c.tpl # name
    /\ \E name \in PAGINATION_TEMPLATES :
          ~doc.next[name] /\ \A c \in candidates : c.tpl # name
    /\ \E name \in DetailNames :
          DetailScore(doc, name) = 0 /\ \A c \in candidates : c.tpl # name
    /\ ~doc.has_org /\ \A c \in candidates : c.tpl # dealer_name

\* some string item of the type field has a local name in the whitelist
\* {vehicle, car, automobile, vehiclemodel}
InWhitelist(tv) ==
    \E i \in 1..Len(tv.items) :
        /\ tv.items[i].isStr
        /\ LocalName(tv.items[i].toks) \in {"vehicle", "car", "automobile", "vehiclemodel"}

\* C25: the scorer and the Structured-Data Vehicle strategy apply the same
\* test to an object: it passes iff some name of its type field, reduced to
\* its last segment and lower-cased, is vehicle, car, automobile or
\* vehiclemodel.
C25_SameVehicleTest ==
    /\ ret.scorer # "none" => (ret.scorer = "yes" <=> InWhitelist(arg))
    /\ ret.strategy # "none" => (ret.strategy = "yes" <=> InWhitelist(arg))

\* the document holds a vehicle object inside a @graph list
VehicleInGraph(d) ==
    \E b \in 1..Len(d) :
        /\ d[b].kind = "graph"
        /\ \E i \in 1..Len(d[b].nodes) : d[b].nodes[i] = CarType

\* C26: a vehicle object nested inside the @graph list of a block is exposed
\* as an individual object: the has_structured_vehicle_object signal is true
\* for such a document, and the scorer and the Structured-Data Vehicle
\* strategy see the same set of objects.
C26_GraphIsFlattened ==
    /\ (ret.signal # "none" /\ VehicleInGraph(arg)) => ret.signal = "yes"
    /\ (ret.signal # "none" /\ ret.found # "none") => ret.seen = ret.nodes

\* C27: finalize_detail_output keeps every key of its input, leaves every
\* non-canonical key with its value, copies every canonical value that is
\* present and non-empty through unchanged, and does not modify its input.
C27_FinalizeKeepsFields ==
    ret # << >> =>
        \A k \in InputKeys :
            /\ arg[k] # Missing => (k \in DOMAIN ret /\ ret[k] # Missing)
            /\ (k \notin REQUIRED_DETAIL_KEYS /\ arg[k] # Missing) => ret[k] = arg[k]
            /\ (k \in REQUIRED_DETAIL_KEYS /\ IsTrue(arg[k])) => ret[k] = arg[k]

\* C28: no URL returned by JSONAPIListingTemplate.get_listing_urls points to
\* a host that is neither in ALLOWED_DOMAINS nor the host of the page,
\* whichever of the accepted forms the source string has.
C28_OnlyAllowedHosts ==
    ret.called =>
        \A i \in 1..Len(ret.urls) :
            ret.urls[i].host \in ALLOWED_DOMAINS \cup {arg.page_url.host}

\* C29: between two close_client calls at most one client is created and
\* every caller of get_client receives that same client, also when several
\* workers call get_client concurrently.
C29_OneCachedClient ==
    /\ pool.made <= 1
    /\ Cardinality(pool.handed) <= 1
    /\ NoClient \notin pool.handed

\* C30: no raw detail sum exceeds 5, so no detail strategy reaches the
\* maximum score, and whenever a listing strategy discovers 5 or more links
\* on a document detect does not return a detail strategy for it.
C30_DetailNeverTops ==
    /\ \A name \in DetailNames : DetailScore(doc, name) <= 5
    /\ pc = "detected" =>
          /\ \A c \in candidates : c.categ = "detail" => c.score < 10 * ScoreUnit
          /\ (\E name \in LISTING_TEMPLATES : doc.links[name] >= 5)
                => selected \notin DetailNames

\* C30 witness: detail_inline_html_blocks holds the largest raw sum, 5, a
\* listing strategy found exactly 5 links, and detect returned a listing
\* strategy.
C30_Witness ==
    /\ pc = "detected"
    /\ DetailScore(doc, "detail_inline_html_blocks") = 5
    /\ \E name \in LISTING_TEMPLATES : doc.links[name] = 5
    /\ \A name \in LISTING_TEMPLATES : doc.links[name] <= 5
    /\ selected \in LISTING_TEMPLATES

====
